---- MODULE Spec2Model ----
(***************************************************************************)
(* kagome-cxx: lattice construction, Viterbi search, token projection and  *)
(* the host C surface (kagome_init / kagome_tokenize / cleanup_result).    *)
(* Strings are sequences of bytes; a C++ index i is the TLA+ index i + 1.  *)
(***************************************************************************)
EXTENDS Integers, Sequences, FiniteSets, TLC

(***************************************************************************)
(* Program constants                                                       *)
(***************************************************************************)
MAXIMUM_COST == 2147483647
MAXIMUM_UNKNOWN_WORD_LENGTH == 1024
SEARCH_MODE_KANJI_LENGTH == 2
SEARCH_MODE_KANJI_PENALTY == 3000
SEARCH_MODE_OTHER_LENGTH == 7
SEARCH_MODE_OTHER_PENALTY == 1700
BOS_EOS_ID == -1

NULL == "NULL"

\* enum class NodeClass / TokenClass
NodeClass == [Dummy |-> 0, Known |-> 1, Unknown |-> 2, User |-> 3]

\* enum class LatticeMode / TokenizeMode
LatticeMode == [Normal |-> 1, Search |-> 2, Extended |-> 3]

\* enum class CharacterCategory
CharacterCategory ==
    [Default |-> 0, Space |-> 1, Numeric |-> 2, Alpha |-> 3, Symbol |-> 4,
     Hiragana |-> 5, Katakana |-> 6, Kanji |-> 7, Greek |-> 8, Cyrillic |-> 9]

(***************************************************************************)
(* Bounds of the exploration                                               *)
(***************************************************************************)
\* number of Tokenizer::analyze / kagome_tokenize calls in one behaviour
MaxCalls == 2
\* number of kagome_cleanup_result calls in one behaviour
MaxApiCalls == 4
\* the ordinal of the malloc / calloc call that may fail ranges over 1..MaxFailAt
MaxFailAt == 4
\* the word whose construction may throw ranges over 0..MaxThrowAt
MaxThrowAt == 1
\* number of Lattice method calls one thread makes in one behaviour
MaxThreadCalls == 2
\* the keys looked up in the small tries have 0..MaxKeyLen bytes
MaxKeyLen == 2

(***************************************************************************)
(* Sequence helpers                                                        *)
(***************************************************************************)
\* std::string::substr(pos, count), 0-based, clipped at the end
substr(s, pos, count) ==
    IF pos >= Len(s) THEN <<>>
    ELSE SubSeq(s, pos + 1, IF pos + count > Len(s) THEN Len(s) ELSE pos + count)

\* "auto v = value; body": body with v bound to the value
With(value, body(_)) == body(value)

(***************************************************************************)
(* UTF-8 (ICU macros)                                                      *)
(***************************************************************************)
U8_IS_TRAIL(b) == b >= 128 /\ b <= 191

\* is t a valid first trail byte after a three-byte lead
U8_LEAD3_T1(lead, t) ==
    IF lead = 224 THEN t >= 160 /\ t <= 191
    ELSE IF lead = 237 THEN t >= 128 /\ t <= 159
    ELSE U8_IS_TRAIL(t)

\* is t a valid first trail byte after a four-byte lead
U8_LEAD4_T1(lead, t) ==
    IF lead = 240 THEN t >= 144 /\ t <= 191
    ELSE IF lead = 244 THEN t >= 128 /\ t <= 143
    ELSE U8_IS_TRAIL(t)

\* U8_NEXT(s, i, length, c): decodes the code point at 0-based index i < Len(s);
\* c < 0 for an ill-formed sequence, i is advanced past what was consumed
U8_NEXT(s, i) ==
    LET n  == Len(s)
        b0 == s[i + 1]
        b(k) == s[i + 1 + k]
        bad(adv) == [c |-> -1, i |-> i + adv]
    IN  IF b0 < 128 THEN [c |-> b0, i |-> i + 1]
        ELSE IF b0 >= 194 /\ b0 <= 223 THEN
            IF i + 1 < n /\ U8_IS_TRAIL(b(1))
            THEN [c |-> (b0 % 32) * 64 + (b(1) % 64), i |-> i + 2]
            ELSE bad(1)
        ELSE IF b0 >= 224 /\ b0 <= 239 THEN
            IF ~(i + 1 < n /\ U8_LEAD3_T1(b0, b(1))) THEN bad(1)
            ELSE IF ~(i + 2 < n /\ U8_IS_TRAIL(b(2))) THEN bad(2)
            ELSE [c |-> (b0 % 16) * 4096 + (b(1) % 64) * 64 + (b(2) % 64),
                  i |-> i + 3]
        ELSE IF b0 >= 240 /\ b0 <= 244 THEN
            IF ~(i + 1 < n /\ U8_LEAD4_T1(b0, b(1))) THEN bad(1)
            ELSE IF ~(i + 2 < n /\ U8_IS_TRAIL(b(2))) THEN bad(2)
            ELSE IF ~(i + 3 < n /\ U8_IS_TRAIL(b(3))) THEN bad(3)
            ELSE [c |-> (b0 - 240) * 262144 + (b(1) % 64) * 4096
                          + (b(2) % 64) * 64 + (b(3) % 64),
                  i |-> i + 4]
        ELSE bad(1)

\* U8_BACK_1(s, 0, i): moves i back over the code point that ends before i
U8_BACK_1(s, i) ==
    With({j \in 0..(i - 1) :
            j >= i - 4 /\ With(U8_NEXT(s, j), LAMBDA d : d.c >= 0 /\ d.i = i)},
         LAMBDA starts :
            IF U8_IS_TRAIL(s[i]) /\ starts # {}
            THEN CHOOSE j \in starts : TRUE
            ELSE i - 1)

RECURSIVE count_utf8_chars_from(_, _)
count_utf8_chars_from(str, byte_pos) ==
    IF byte_pos >= Len(str) THEN 0
    ELSE With(U8_NEXT(str, byte_pos), LAMBDA d :
             (IF d.c >= 0 THEN 1 ELSE 0) + count_utf8_chars_from(str, d.i))

count_utf8_chars(str) == count_utf8_chars_from(str, 0)

\* u_hasBinaryProperty(c, UCHAR_IDEOGRAPHIC)
IsIdeographic(c) ==
    \/ c = 12294 \/ c = 12295
    \/ (c >= 12321 /\ c <= 12329)
    \/ (c >= 12344 /\ c <= 12346)
    \/ (c >= 13312 /\ c <= 19903)
    \/ (c >= 19968 /\ c <= 40959)
    \/ (c >= 63744 /\ c <= 64109)
    \/ (c >= 64112 /\ c <= 64217)
    \/ (c >= 131072 /\ c <= 205743)

(***************************************************************************)
(* Dictionary data                                                         *)
(***************************************************************************)
Morph(l, r, w) == [left_id |-> l, right_id |-> r, weight |-> w]

DANode(b, c) == [base |-> b, check |-> c]

\* a std::vector<DANode> of the given size, 0-based; cells not listed are
\* unused (check = -1)
DoubleArray(size, cells) ==
    [q \in 0..(size - 1) |-> IF q \in DOMAIN cells THEN cells[q] ELSE DANode(0, -1)]

\* the double array of an index.dict that holds the nine words
\*   0 すもも  1 もも  2 も  3 の  4 うち  5 関西国際空港  6 関西  7 国際  8 空港
WordsDaCells ==
    0 :> DANode(1, -1) @@
    1 :> DANode(-4, 162) @@
    2 :> DANode(0, 137) @@
    3 :> DANode(-3, 175) @@
    4 :> DANode(-1, 140) @@
    5 :> DANode(-7, 157) @@
    6 :> DANode(-8, 176) @@
    7 :> DANode(-5, 177) @@
    8 :> DANode(-2, 138) @@
    10 :> DANode(-6, 192) @@
    130 :> DANode(1, 228) @@
    131 :> DANode(8, 228) @@
    132 :> DANode(1, 229) @@
    133 :> DANode(4, 231) @@
    134 :> DANode(6, 133) @@
    135 :> DANode(2, 130) @@
    136 :> DANode(7, 233) @@
    137 :> DANode(2, 136) @@
    138 :> DANode(8, 131) @@
    139 :> DANode(10, 235) @@
    140 :> DANode(4, 139) @@
    151 :> DANode(1, 234) @@
    154 :> DANode(4, 130) @@
    155 :> DANode(2, 236) @@
    156 :> DANode(1, 230) @@
    157 :> DANode(5, 155) @@
    158 :> DANode(2, 239) @@
    159 :> DANode(5, 240) @@
    160 :> DANode(10, 159) @@
    162 :> DANode(1, 132) @@
    163 :> DANode(6, 151) @@
    166 :> DANode(1, 238) @@
    170 :> DANode(1, 232) @@
    171 :> DANode(2, 241) @@
    175 :> DANode(3, 130) @@
    176 :> DANode(6, 185) @@
    177 :> DANode(7, 186) @@
    185 :> DANode(1, 237) @@
    186 :> DANode(2, 242) @@
    187 :> DANode(7, 170) @@
    188 :> DANode(12, 171) @@
    190 :> DANode(3, 156) @@
    191 :> DANode(7, 158) @@
    192 :> DANode(10, 166) @@
    228 :> DANode(1, 0) @@
    229 :> DANode(3, 135) @@
    230 :> DANode(1, 0) @@
    231 :> DANode(3, 154) @@
    232 :> DANode(1, 0) @@
    233 :> DANode(6, 134) @@
    234 :> DANode(1, 0) @@
    235 :> DANode(9, 138) @@
    236 :> DANode(1, 190) @@
    237 :> DANode(1, 187) @@
    238 :> DANode(1, 163) @@
    239 :> DANode(3, 192) @@
    240 :> DANode(5, 191) @@
    241 :> DANode(2, 160) @@
    242 :> DANode(2, 188)

EmptyMap == <<>>

\* std::unordered_map::size()
MapSize(m) == Cardinality(DOMAIN m)

\* std::unordered_map::operator[] (non-const): a missing key is inserted with
\* a value-initialised (0) mapped value
MapIndex(m, k) ==
    IF k \in DOMAIN m THEN [map |-> m, value |-> m[k]]
    ELSE [map |-> [x \in (DOMAIN m) \cup {k} |-> IF x = k THEN 0 ELSE m[x]],
          value |-> 0]

\* the table load_char_def_dict fills in (code point -> category ordinal)
CharDefTable(c) ==
    IF c = 32 \/ c = 12288 THEN CharacterCategory.Space
    ELSE IF (c >= 65 /\ c <= 90) \/ (c >= 97 /\ c <= 122) THEN CharacterCategory.Alpha
    ELSE IF c >= 48 /\ c <= 57 THEN CharacterCategory.Numeric
    ELSE IF c >= 12352 /\ c <= 12447 THEN CharacterCategory.Hiragana
    ELSE IF c >= 12448 /\ c <= 12543 THEN CharacterCategory.Katakana
    ELSE IF c >= 19968 /\ c <= 40879 THEN CharacterCategory.Kanji
    ELSE IF (c >= 33 /\ c <= 47) \/ (c >= 58 /\ c <= 64) THEN CharacterCategory.Symbol
    ELSE CharacterCategory.Default

\* group_list after load_char_def_dict: nine classes, Numeric, Alpha,
\* Hiragana, Katakana and Kanji grouped
CharDefGroupList == <<FALSE, FALSE, TRUE, TRUE, FALSE, TRUE, TRUE, TRUE, FALSE>>
CharDefInvokeList == <<TRUE, TRUE, TRUE, TRUE, TRUE, TRUE, TRUE, TRUE, TRUE>>

\* the UTF-8 bytes of the string literals the loaders store, by romanised
\* name: meishi = noun, kigou = symbol, joshi = particle, jodoushi =
\* auxiliary verb, ippan = general, kuuhaku = blank, koyuumeishi = proper
\* noun, kazu = number, kakujoshi = case particle, doushi = verb,
\* keiyoushi = adjective, tesuto / eguzanpuru = the fallback readings
\* the literals the code compares features with: "*", and the part-of-speech
\* names kigou, joshi, jodoushi
Asterisk == <<42>>
Kigou == <<232, 168, 152, 229, 143, 183>>
Joshi == <<229, 138, 169, 232, 169, 158>>
Jodoushi == <<229, 138, 169, 229, 139, 149, 232, 169, 158>>

utf8 ==
    [meishi |-> <<229, 144, 141, 232, 169, 158>>,
     kigou |-> Kigou,
     joshi |-> Joshi,
     jodoushi |-> Jodoushi,
     ippan |-> <<228, 184, 128, 232, 136, 172>>,
     kuuhaku |-> <<231, 169, 186, 231, 153, 189>>,
     koyuumeishi |-> <<229, 155, 186, 230, 156, 137, 229, 144, 141, 232, 169, 158>>,
     kazu |-> <<230, 149, 176>>,
     kakujoshi |-> <<230, 160, 188, 229, 138, 169, 232, 169, 158>>,
     doushi |-> <<229, 139, 149, 232, 169, 158>>,
     keiyoushi |-> <<229, 189, 162, 229, 174, 185, 232, 169, 158>>,
     star |-> Asterisk,
     test |-> <<116, 101, 115, 116>>,
     tesuto |-> <<227, 131, 134, 227, 130, 185, 227, 131, 136>>,
     example |-> <<101, 120, 97, 109, 112, 108, 101>>,
     eguzanpuru |-> <<227, 130, 168, 227, 130, 176, 227, 130, 182, 227, 131, 179,
                      227, 131, 151, 227, 131, 171>>]

\* a feature row {a, b, c, "*", "*", "*", "*", "*", "*"} of unk_dict.contents
UnkRow(a, b, c) ==
    <<a, b, c, Asterisk, Asterisk, Asterisk, Asterisk, Asterisk, Asterisk>>

\* unk_dict after load_unk_dict could not decode unk.dict
UnkComprehensive ==
    With(utf8, LAMBDA u :
    [morphs |-> <<Morph(1, 1, 1000), Morph(13, 13, 500), Morph(15, 15, 2000),
                  Morph(19, 19, 1500), Morph(36, 37, 1000), Morph(38, 39, 800),
                  Morph(40, 41, 1200), Morph(2, 2, 3000), Morph(15, 15, 2000)>>,
     index |-> (0 :> 0) @@ (1 :> 1) @@ (3 :> 2) @@ (2 :> 3) @@ (7 :> 4) @@
               (5 :> 5) @@ (6 :> 6) @@ (4 :> 7) @@ (8 :> 8) @@ (9 :> 8),
     index_dup |-> EmptyMap,
     contents_meta |-> ("_pos_start" :> 0) @@ ("_pos_hierarchy" :> 3) @@
                       ("_base" :> 6) @@ ("_reading" :> 7) @@
                       ("_pronunciation" :> 8),
     contents |-> << UnkRow(u.meishi, u.ippan, u.star),
                     UnkRow(u.kigou, u.kuuhaku, u.star),
                     UnkRow(u.meishi, u.koyuumeishi, u.ippan),
                     UnkRow(u.meishi, u.kazu, u.star),
                     UnkRow(u.meishi, u.ippan, u.star),
                     UnkRow(u.joshi, u.kakujoshi, u.ippan),
                     UnkRow(u.meishi, u.ippan, u.star),
                     UnkRow(u.kigou, u.ippan, u.star),
                     UnkRow(u.meishi, u.koyuumeishi, u.ippan) >>])

\* unk_dict after load_unk_dict read an empty unk.dict
UnkMinimal ==
    With(utf8, LAMBDA u :
    [morphs |-> <<Morph(38, 39, 800)>>,
     index |-> (5 :> 0),
     index_dup |-> EmptyMap,
     contents_meta |-> ("_pos_start" :> 0) @@ ("_pos_hierarchy" :> 3),
     contents |-> << UnkRow(u.joshi, u.kakujoshi, u.ippan) >>])

\* an unk_dict as a caller that fills the Dict itself gives it (the loaders
\* leave index_dup empty): one rule per category, three for Katakana, of
\* which the second and the third weigh the same and less than the first
UnkWithDup ==
    With(utf8, LAMBDA u :
    [morphs |-> <<Morph(1, 1, 1000), Morph(13, 13, 500), Morph(19, 19, 1500),
                  Morph(15, 15, 2000), Morph(2, 2, 3000), Morph(38, 39, 800),
                  Morph(36, 37, 1000), Morph(40, 41, 1200), Morph(40, 41, 900),
                  Morph(40, 41, 900), Morph(15, 15, 2000)>>,
     index |-> (0 :> 0) @@ (1 :> 1) @@ (2 :> 2) @@ (3 :> 3) @@ (4 :> 4) @@
               (5 :> 5) @@ (7 :> 6) @@ (6 :> 7) @@ (8 :> 10) @@ (9 :> 10),
     index_dup |-> [c \in 0..9 |-> IF c = CharacterCategory.Katakana THEN 2
                                   ELSE 0],
     contents_meta |-> ("_pos_start" :> 0) @@ ("_pos_hierarchy" :> 3) @@
                       ("_base" :> 6) @@ ("_reading" :> 7) @@
                       ("_pronunciation" :> 8),
     contents |-> << UnkRow(u.meishi, u.ippan, u.star),
                     UnkRow(u.kigou, u.kuuhaku, u.star),
                     UnkRow(u.meishi, u.kazu, u.star),
                     UnkRow(u.meishi, u.koyuumeishi, u.ippan),
                     UnkRow(u.kigou, u.ippan, u.star),
                     UnkRow(u.joshi, u.kakujoshi, u.ippan),
                     UnkRow(u.meishi, u.ippan, u.star),
                     UnkRow(u.meishi, u.ippan, u.star),
                     UnkRow(u.meishi, u.koyuumeishi, u.ippan),
                     UnkRow(u.meishi, u.koyuumeishi, u.star),
                     UnkRow(u.meishi, u.koyuumeishi, u.ippan) >>])

\* the dictionary DictLoader::create_fallback_dict builds
FallbackDict ==
    With(utf8, LAMBDA u :
    [morphs |-> <<Morph(1, 1, 1000), Morph(2, 2, 2000), Morph(3, 3, 3000)>>,
     pos_table |-> [name_list |-> <<u.meishi, u.doushi, u.keiyoushi>>,
                    pos_entries |-> << <<1>>, <<2>>, <<3>> >>],
     contents_meta |-> ("_pos_start" :> 0) @@ ("_reading" :> 1),
     contents |-> << <<u.test, u.tesuto>>, <<u.example, u.eguzanpuru>> >>,
     connection |-> [row |-> 3, col |-> 3,
                     vec |-> <<0, 100, 200, 100, 0, 150, 200, 150, 0>>],
     index |-> [da |-> DoubleArray(2, (0 :> DANode(1, -1)) @@ (1 :> DANode(-1, 0))),
                dup |-> EmptyMap],
     char_category |-> "zero",
     invoke_list |-> <<TRUE>>,
     group_list |-> <<FALSE>>,
     unk_dict |-> [morphs |-> <<>>, index |-> EmptyMap, index_dup |-> EmptyMap,
                   contents_meta |-> EmptyMap, contents |-> <<>>]])

\* a dictionary load_from_zip returns for an archive whose index.dict holds the
\* nine words; ids 0..8 as listed at WordsDaCells, connection ids 0 = BOS/EOS,
\* 1 = noun, 2 = particle, costs in the style of the IPA dictionary
WordsDict(unk) ==
    [morphs |-> <<Morph(1, 1, 7546), Morph(1, 1, 7219), Morph(2, 2, 4669),
                  Morph(2, 2, 4816), Morph(1, 1, 5796), Morph(1, 1, 5000),
                  Morph(1, 1, 4000), Morph(1, 1, 4000), Morph(1, 1, 4000)>>,
     pos_table |-> [name_list |-> <<utf8.meishi, Joshi>>,
                    pos_entries |-> << <<0>>, <<0>>, <<1>>, <<1>>, <<0>>,
                                       <<0>>, <<0>>, <<0>>, <<0>> >>],
     contents_meta |-> ("_base" :> 6) @@ ("_reading" :> 7) @@
                       ("_pronunciation" :> 8) @@ ("_inflectional_type" :> 4) @@
                       ("_inflectional_form" :> 5) @@ ("_pos_start" :> 0) @@
                       ("_pos_hierarchy" :> 4),
     contents |-> <<>>,
     connection |-> [row |-> 3, col |-> 3,
                     vec |-> <<0, 0, 0, 0, 2000, -300, 0, -3000, 500>>],
     index |-> [da |-> DoubleArray(243, WordsDaCells), dup |-> EmptyMap],
     char_category |-> "chardef",
     invoke_list |-> CharDefInvokeList,
     group_list |-> CharDefGroupList,
     unk_dict |-> unk]

\* the double array of an index.dict whose lexicon lists the fourth word twice
\* (particle and noun): the words behind it have the next id, 4 うち ->
\* 5 .. 8 空港 -> 9; a terminator cell holds -id in base
DupDaCells ==
    [q \in DOMAIN WordsDaCells |->
        IF WordsDaCells[q].base <= -4
        THEN DANode(WordsDaCells[q].base - 1, WordsDaCells[q].check)
        ELSE WordsDaCells[q]]

\* the dictionary load_from_zip returns for that archive: ids 3 and 4 share
\* the surface, index.dict carries the duplicate count 3 -> 1
WordsDupDict ==
    [WordsDict(UnkComprehensive) EXCEPT
        !.morphs = <<Morph(1, 1, 7546), Morph(1, 1, 7219), Morph(2, 2, 4669),
                     Morph(2, 2, 4816), Morph(1, 1, 9000), Morph(1, 1, 5796),
                     Morph(1, 1, 5000), Morph(1, 1, 4000), Morph(1, 1, 4000),
                     Morph(1, 1, 4000)>>,
        !.pos_table.pos_entries = << <<0>>, <<0>>, <<1>>, <<1>>, <<0>>, <<0>>,
                                     <<0>>, <<0>>, <<0>>, <<0>> >>,
        !.index = [da |-> DoubleArray(243, DupDaCells), dup |-> (3 :> 1)]]

\* the double array of an index.dict compiled from a Shift_JIS lexicon: its one
\* key is the two bytes 0xE3 0x81 (id 0), which are also the first two bytes of
\* the UTF-8 form of U+3059
SjisDaCells ==
    0 :> DANode(1, -1) @@
    2 :> DANode(0, 130) @@
    130 :> DANode(2, 228) @@
    228 :> DANode(1, 0)

\* a dictionary load_from_zip returns for that archive (the index is taken as
\* it is: no member's text encoding is examined)
SjisDict ==
    [WordsDict(UnkComprehensive) EXCEPT
        !.morphs = <<Morph(1, 1, 5000)>>,
        !.pos_table.pos_entries = << <<0>> >>,
        !.index.da = DoubleArray(243, SjisDaCells)]

\* Dict::character_category
character_category(dict, ch) ==
    IF ch < 65536
    THEN (IF dict.char_category = "chardef" THEN CharDefTable(ch) ELSE 0)
    ELSE CharacterCategory.Default

\* Dict::should_group
should_group(dict, category) ==
    IF category < Len(dict.group_list) THEN dict.group_list[category + 1] ELSE FALSE

\* ConnectionTable::at
at(connection, row_idx, col_idx) ==
    IF row_idx >= 0 /\ col_idx >= 0
       /\ connection.row * col_idx + row_idx < Len(connection.vec)
    THEN connection.vec[connection.row * col_idx + row_idx + 1]
    ELSE 0

\* da[q]: neither search tests q >= 0, so a negative q reads the memory in
\* front of the array, whose contents the index record holds as "before"
Cell(index, q) == IF q < 0 THEN index.before ELSE index.da[q]

\* the "for" loop of IndexTable::find_internal from input[i] on: the cell the
\* key leads to, or <<>> when the walk fails
RECURSIVE find_loop(_, _, _, _)
find_loop(index, input, i, q0) ==
    IF i >= Len(input) THEN <<q0>>
    ELSE IF input[i + 1] = 0 THEN <<>>
    ELSE LET p == q0 IN
         With(Cell(index, p).base + input[i + 1], LAMBDA q :
             IF q >= Cardinality(DOMAIN index.da) \/ Cell(index, q).check # p
             THEN <<>>
             ELSE find_loop(index, input, i + 1, q))

\* IndexTable::find_internal: [id, found]
find_internal(index, input) ==
    IF Cardinality(DOMAIN index.da) = 0 \/ input = <<>>
    THEN [id |-> 0, found |-> FALSE]
    ELSE With(find_loop(index, input, 0, 0), LAMBDA w :
         IF w = <<>> THEN [id |-> 0, found |-> FALSE]
         ELSE LET p == w[1] IN
              With(Cell(index, p).base + 0, LAMBDA q :
                  IF q >= Cardinality(DOMAIN index.da)
                     \/ Cell(index, q).check # p \/ Cell(index, q).base > 0
                  THEN [id |-> 0, found |-> FALSE]
                  ELSE [id |-> -Cell(index, q).base, found |-> TRUE]))

\* IndexTable::search: the ids id .. id + dup[id]
search(index, input) ==
    With(find_internal(index, input), LAMBDA r :
        IF ~r.found THEN <<>>
        ELSE LET dup_count == IF r.id \in DOMAIN index.dup THEN index.dup[r.id]
                              ELSE 0
             IN  [i \in 1..(dup_count + 1) |-> r.id + (i - 1)])

\* IndexTable::common_prefix_search_callback: the calls callback(id, length)
\* it makes, in order, for the key input; i is the 0-based loop index, q the
\* current cell
RECURSIVE cps_loop(_, _, _, _)
cps_loop(index, input, i, q0) ==
    LET buf_len == Cardinality(DOMAIN index.da) IN
    IF i >= Len(input) THEN <<>>
    ELSE IF input[i + 1] = 0 THEN <<>>
    ELSE LET p == q0 IN
         With(Cell(index, p).base + input[i + 1], LAMBDA q :
             IF q >= buf_len \/ Cell(index, q).check # p THEN <<>>
             ELSE With(Cell(index, q).base + 0, LAMBDA ahead :
                  (IF ahead < buf_len /\ Cell(index, ahead).check = q
                      /\ Cell(index, ahead).base <= 0
                   THEN << <<-Cell(index, ahead).base, i + 1>> >>
                   ELSE <<>>)
                  \o cps_loop(index, input, i + 1, q)))

\* a prefix search that stops one byte short of the key: proper prefixes only
common_prefix_search_proper(index, input) ==
    IF Cardinality(DOMAIN index.da) = 0 \/ input = <<>> THEN <<>>
    ELSE cps_loop(index, SubSeq(input, 1, Len(input) - 1), 0, 0)

common_prefix_search_callback(index, input) ==
    IF Cardinality(DOMAIN index.da) = 0 \/ input = <<>> THEN <<>>
    ELSE cps_loop(index, input, 0, 0)

(***************************************************************************)
(* Lattice                                                                 *)
(***************************************************************************)
\* a Node as value-initialised by ObjectPool::get (new T{} or a reset object)
NewNode ==
    [id |-> 0, position |-> 0, start |-> 0, class |-> NodeClass.Dummy,
     cost |-> 0, left_id |-> 0, right_id |-> 0, weight |-> 0,
     surface |-> <<>>, prev |-> NULL]

\* Node::is_bos_eos
is_bos_eos(node) == node.id = BOS_EOS_ID

\* a lattice is [dict, input, node_list, output, got]: node_list[i + 1] is the
\* C++ bucket node_list_[i]; a prev pointer is <<bucket, index>> (0-based) or
\* NULL; got counts the node_pool_.get() calls the lattice has made
NewLattice(dict) ==
    [dict |-> dict, input |-> <<>>, node_list |-> <<>>, output |-> <<>>, got |-> 0]

\* ObjectPool<Node>: [pool_, made]; pool_ is pool_.size(), made the number of
\* objects that "new T{}" created and no "delete" destroyed
NewPool == [pool_ |-> 0, made |-> 0]

\* ObjectPool::get
get(P) ==
    IF P.pool_ = 0 THEN [P EXCEPT !.made = @ + 1]
    ELSE [P EXCEPT !.pool_ = @ - 1]

\* ObjectPool::put of an object that is not null
put(P) == [P EXCEPT !.pool_ = @ + 1]

\* n calls of node_pool_.get()
RECURSIVE gets(_, _)
gets(P, n) == IF n = 0 THEN P ELSE gets(get(P), n - 1)

\* Lattice::add_node
add_node(L, pos, id, position, start, node_class, surface) ==
    LET morph ==
            IF node_class = NodeClass.Known /\ id >= 0 /\ id < Len(L.dict.morphs)
            THEN L.dict.morphs[id + 1]
            ELSE IF node_class = NodeClass.Unknown /\ id >= 0
                    /\ id < Len(L.dict.unk_dict.morphs)
            THEN L.dict.unk_dict.morphs[id + 1]
            ELSE Morph(0, 0, 0)
        node == [NewNode EXCEPT !.id = id, !.position = position, !.start = start,
                                !.class = node_class, !.cost = 0,
                                !.left_id = morph.left_id,
                                !.right_id = morph.right_id,
                                !.weight = morph.weight,
                                !.surface = surface, !.prev = NULL]
        target_pos == IF surface # <<>> THEN pos + count_utf8_chars(surface) ELSE pos
    IN  IF target_pos < Len(L.node_list)
        THEN [L EXCEPT !.node_list[target_pos + 1] = Append(@, node),
                       !.got = @ + 1]
        ELSE [L EXCEPT !.got = @ + 1]

\* the system-dictionary callback of build, applied to the hits in order
RECURSIVE add_known(_, _, _, _, _)
add_known(L, hits, k, char_pos, char_start_byte) ==
    IF k > Len(hits) THEN L
    ELSE add_known(add_node(L, char_pos, hits[k][1], char_start_byte, char_pos,
                            NodeClass.Known,
                            substr(L.input, char_start_byte, hits[k][2])),
                   hits, k + 1, char_pos, char_start_byte)

\* "if (length > longest_match_bytes)" over the hits in order
RECURSIVE longest_match(_, _, _)
longest_match(hits, k, best) ==
    IF k > Len(hits) THEN best
    ELSE longest_match(hits, k + 1, IF hits[k][2] > best THEN hits[k][2] ELSE best)

\* the grouping loop of build: returns [byte_pos, unknown_word_len]
RECURSIVE group_loop(_, _, _, _, _)
group_loop(dict, input, byte_pos, unknown_word_len, char_category) ==
    IF ~(byte_pos < Len(input) /\ unknown_word_len < MAXIMUM_UNKNOWN_WORD_LENGTH)
    THEN [byte_pos |-> byte_pos, unknown_word_len |-> unknown_word_len]
    ELSE With(U8_NEXT(input, byte_pos), LAMBDA d :
             IF d.c < 0 \/ character_category(dict, d.c) # char_category
             THEN [byte_pos |-> byte_pos, unknown_word_len |-> unknown_word_len]
             ELSE group_loop(dict, input, d.i, unknown_word_len + 1, char_category))

\* "for (i = 0; i < dup_count; ++i)" of build
RECURSIVE add_unknown(_, _, _, _, _, _, _, _)
add_unknown(L, i, dup_count, base_id, char_pos, char_start_byte, end_byte,
            unknown_word_len) ==
    IF i >= dup_count THEN L
    ELSE LET truncated_end == U8_BACK_1(L.input, end_byte)
             L1 == IF unknown_word_len > 1
                   THEN add_node(L, char_pos, base_id + i, char_start_byte, char_pos,
                                 NodeClass.Unknown,
                                 substr(L.input, char_start_byte,
                                        truncated_end - char_start_byte))
                   ELSE L
             L2 == add_node(L1, char_pos, base_id + i, char_start_byte, char_pos,
                            NodeClass.Unknown,
                            substr(L.input, char_start_byte,
                                   end_byte - char_start_byte))
         IN  add_unknown(L2, i + 1, dup_count, base_id, char_pos, char_start_byte,
                         end_byte, unknown_word_len)

\* a build without step 3: a character no dictionary word starts at is passed
\* over and gets no node
build_without_unknown(L, current_char, char_pos, char_start_byte, byte_pos) ==
    [L |-> L, byte_pos |-> byte_pos, char_pos |-> char_pos + 1]

\* step 3 of build (unknown words) at one position; the two operator[] calls
\* on dict_->unk_dict.index and index_dup go through the non-const Dict
build_unknown(L, current_char, char_pos, char_start_byte, byte_pos) ==
    LET unk == L.dict.unk_dict IN
    With(character_category(L.dict, current_char), LAMBDA char_category :
    With(IF should_group(L.dict, char_category)
         THEN group_loop(L.dict, L.input, byte_pos, 1, char_category)
         ELSE [byte_pos |-> byte_pos, unknown_word_len |-> 1], LAMBDA g :
    LET end_byte == g.byte_pos IN
    IF char_category < MapSize(unk.index)
    THEN LET hasdup == char_category < MapSize(unk.index_dup) IN
         With(MapIndex(unk.index, char_category), LAMBDA ix :
         With(IF hasdup THEN MapIndex(unk.index_dup, char_category)
              ELSE [map |-> unk.index_dup, value |-> 0], LAMBDA dx :
         LET dup_count == IF hasdup THEN dx.value + 1 ELSE 1
             L1 == [L EXCEPT !.dict.unk_dict.index = ix.map,
                             !.dict.unk_dict.index_dup = dx.map]
         IN  [L |-> add_unknown(L1, 0, dup_count, ix.value, char_pos,
                                char_start_byte, end_byte, g.unknown_word_len),
              byte_pos |-> g.byte_pos,
              char_pos |-> char_pos + g.unknown_word_len]))
    ELSE [L |-> add_node(L, char_pos, -2, char_start_byte, char_pos,
                         NodeClass.Unknown,
                         substr(L.input, char_start_byte,
                                end_byte - char_start_byte)),
          byte_pos |-> g.byte_pos,
          char_pos |-> char_pos + g.unknown_word_len]))

\* the "while (byte_pos < input.length())" loop of build; user_dict_ is null
\* (analyze_impl passes nullptr)
RECURSIVE build_loop(_, _, _)
build_loop(L, byte_pos, char_pos) ==
    IF byte_pos >= Len(L.input) THEN L
    ELSE
    LET char_start_byte == byte_pos
        remaining_input ==
            substr(L.input, char_start_byte, Len(L.input) - char_start_byte)
    IN
    With(U8_NEXT(L.input, byte_pos), LAMBDA d :
    IF d.c < 0 THEN build_loop(L, d.i, char_pos)
    ELSE
    With(common_prefix_search_callback(L.dict.index, remaining_input), LAMBDA hits :
    IF hits # <<>>
    THEN With(longest_match(hits, 1, 0), LAMBDA longest_match_bytes :
         LET longest_match_chars ==
                 count_utf8_chars(substr(L.input, char_start_byte,
                                         longest_match_bytes))
         IN  build_loop(add_known(L, hits, 1, char_pos, char_start_byte),
                        char_start_byte + longest_match_bytes,
                        char_pos + longest_match_chars))
    ELSE With(build_unknown(L, d.c, char_pos, char_start_byte, d.i), LAMBDA u :
         build_loop(u.L, u.byte_pos, u.char_pos))))

\* Lattice::build on a lattice fresh from create_lattice (clear() finds no
\* nodes to return)
build(L0, input) ==
    LET char_count == count_utf8_chars(input)
        L1 == [L0 EXCEPT !.input = input,
                         !.node_list = [i \in 1..(char_count + 2) |-> <<>>],
                         !.output = <<>>]
        L2 == add_node(L1, 0, BOS_EOS_ID, 0, 0, NodeClass.Dummy, <<>>)
        L3 == add_node(L2, char_count + 1, BOS_EOS_ID, Len(input), char_count,
                       NodeClass.Dummy, <<>>)
    IN  build_loop(L3, 0, 0)

\* Lattice::is_kanji_only
RECURSIVE is_kanji_only_from(_, _)
is_kanji_only_from(str, byte_pos) ==
    IF byte_pos >= Len(str) THEN TRUE
    ELSE With(U8_NEXT(str, byte_pos), LAMBDA d :
             IF d.c < 0 THEN FALSE
             ELSE IF ~IsIdeographic(d.c) THEN FALSE
             ELSE is_kanji_only_from(str, d.i))

is_kanji_only(str) == IF str = <<>> THEN FALSE ELSE is_kanji_only_from(str, 0)

\* Lattice::additional_cost
additional_cost(node) ==
    IF node.surface = <<>> THEN 0
    ELSE With(count_utf8_chars(node.surface), LAMBDA char_count :
             IF char_count > SEARCH_MODE_KANJI_LENGTH /\ is_kanji_only(node.surface)
             THEN (char_count - SEARCH_MODE_KANJI_LENGTH) * SEARCH_MODE_KANJI_PENALTY
             ELSE IF char_count > SEARCH_MODE_OTHER_LENGTH
             THEN (char_count - SEARCH_MODE_OTHER_LENGTH) * SEARCH_MODE_OTHER_PENALTY
             ELSE 0)

\* a "for k" loop that charges the search-mode penalty to the target
RECURSIVE forward_prev_target(_, _, _, _, _, _)
forward_prev_target(dict, mode, prev_list, target, start, k) ==
    IF k >= Len(prev_list) THEN target
    ELSE LET prev == prev_list[k + 1]
             sum == at(dict.connection, prev.right_id, target.left_id)
                    + target.weight + prev.cost
                    + (IF mode # LatticeMode.Normal THEN additional_cost(target)
                       ELSE 0)
         IN  With(IF sum > MAXIMUM_COST THEN MAXIMUM_COST ELSE sum, LAMBDA total_cost :
             forward_prev_target(dict, mode, prev_list,
                                 IF k = 0 \/ total_cost < target.cost
                                 THEN [target EXCEPT !.cost = total_cost,
                                                     !.prev = <<start, k>>]
                                 ELSE target,
                                 start, k + 1))

\* a "for k" loop that also takes a later predecessor of equal cost
RECURSIVE forward_prev_last(_, _, _, _, _, _)
forward_prev_last(dict, mode, prev_list, target, start, k) ==
    IF k >= Len(prev_list) THEN target
    ELSE LET prev == prev_list[k + 1]
             sum == at(dict.connection, prev.right_id, target.left_id)
                    + target.weight + prev.cost
                    + (IF mode # LatticeMode.Normal THEN additional_cost(prev) ELSE 0)
         IN  With(IF sum > MAXIMUM_COST THEN MAXIMUM_COST ELSE sum, LAMBDA total_cost :
             forward_prev_last(dict, mode, prev_list,
                               IF k = 0 \/ total_cost <= target.cost
                               THEN [target EXCEPT !.cost = total_cost,
                                                   !.prev = <<start, k>>]
                               ELSE target,
                               start, k + 1))

\* the "for k" loop of forward for one target: cost and prev after looking at
\* prev_list[0..k-1]
RECURSIVE forward_prev(_, _, _, _, _, _)
forward_prev(dict, mode, prev_list, target, start, k) ==
    IF k >= Len(prev_list) THEN target
    ELSE LET prev == prev_list[k + 1]
             connection_cost ==
                 IF prev.class # NodeClass.User /\ target.class # NodeClass.User
                 THEN at(dict.connection, prev.right_id, target.left_id)
                 ELSE 0
             step == connection_cost + target.weight
                     + (IF mode # LatticeMode.Normal THEN additional_cost(prev) ELSE 0)
         IN  With(step, LAMBDA s :
             \* the 64-bit total_cost after the clamp; prev.cost + s is formed
             \* only where it fits 32 bits
             LET total_cost == IF prev.cost > 0 /\ s > MAXIMUM_COST - prev.cost
                               THEN MAXIMUM_COST ELSE prev.cost + s
                 t1 == IF k = 0 \/ total_cost < target.cost
                       THEN [target EXCEPT !.cost = total_cost,
                                           !.prev = <<start, k>>]
                       ELSE target
             IN  forward_prev(dict, mode, prev_list, t1, start, k + 1))

\* the body of forward for node_list_[i][j]
forward_node(L, mode, i, j) ==
    LET target == L.node_list[i + 1][j + 1] IN
    IF target.start >= Len(L.node_list)
    THEN [L EXCEPT !.node_list[i + 1][j + 1].cost = MAXIMUM_COST]
    ELSE LET prev_list == L.node_list[target.start + 1] IN
         IF prev_list = <<>>
         THEN [L EXCEPT !.node_list[i + 1][j + 1].cost = MAXIMUM_COST]
         ELSE [L EXCEPT !.node_list[i + 1][j + 1] =
                   forward_prev(L.dict, mode, prev_list, target, target.start, 0)]

RECURSIVE forward_loop(_, _, _, _)
forward_loop(L, mode, i, j) ==
    IF i >= Len(L.node_list) THEN L
    ELSE IF j >= Len(L.node_list[i + 1]) THEN forward_loop(L, mode, i + 1, 0)
    ELSE forward_loop(forward_node(L, mode, i, j), mode, i, j + 1)

\* Lattice::forward
forward(L, mode) == forward_loop(L, mode, 1, 0)

\* an Extended split that makes a node of the first character only
char_nodes_first(current, byte_pos) ==
    IF byte_pos >= Len(current.surface) THEN <<>>
    ELSE With(U8_NEXT(current.surface, byte_pos), LAMBDA d :
             IF d.c >= 0
             THEN << [NewNode EXCEPT
                        !.id = current.id,
                        !.start = current.position + byte_pos,
                        !.class = NodeClass.Dummy,
                        !.surface = substr(current.surface, byte_pos, d.i - byte_pos),
                        !.position = current.position + byte_pos] >>
             ELSE <<>>)

\* the per-character nodes backward makes of an Unknown node in Extended
\* mode, in the order they are pushed to char_nodes
RECURSIVE char_nodes(_, _)
char_nodes(current, byte_pos) ==
    IF byte_pos >= Len(current.surface) THEN <<>>
    ELSE LET char_start_byte == byte_pos IN
         With(U8_NEXT(current.surface, byte_pos), LAMBDA d :
             IF d.c >= 0
             THEN << [NewNode EXCEPT
                        !.id = current.id,
                        !.start = current.position + char_start_byte,
                        !.class = NodeClass.Dummy,
                        !.surface = substr(current.surface, char_start_byte,
                                           d.i - char_start_byte),
                        !.position = current.position + char_start_byte] >>
                  \o char_nodes(current, d.i)
             ELSE char_nodes(current, d.i))

\* the "while (current != nullptr)" loop of backward: collected_nodes
RECURSIVE collect(_, _, _)
collect(L, mode, cur) ==
    IF cur = NULL THEN <<>>
    ELSE LET current == L.node_list[cur[1] + 1][cur[2] + 1]
             here == IF mode # LatticeMode.Extended
                        \/ current.class # NodeClass.Unknown
                     THEN <<current>>
                     ELSE char_nodes(current, 0)
         IN  here \o collect(L, mode, current.prev)

Reverse(seq) == [i \in 1..Len(seq) |-> seq[Len(seq) + 1 - i]]

\* the nodes on the prev chain that starts at cur (EOS first)
RECURSIVE best_path(_, _)
best_path(L, cur) ==
    IF cur = NULL THEN <<>>
    ELSE LET current == L.node_list[cur[1] + 1][cur[2] + 1]
         IN  <<current>> \o best_path(L, current.prev)

\* backward without the final reversal: the nodes stay in EOS-to-BOS order
backward_unreversed(L, mode) ==
    IF L.node_list = <<>> \/ L.node_list[Len(L.node_list)] = <<>>
    THEN [L EXCEPT !.output = <<>>]
    ELSE With(collect(L, mode, <<Len(L.node_list) - 1, 0>>), LAMBDA collected_nodes :
             [L EXCEPT !.output = collected_nodes])

\* Lattice::backward
backward(L, mode) ==
    IF L.node_list = <<>> \/ L.node_list[Len(L.node_list)] = <<>>
    THEN [L EXCEPT !.output = <<>>]
    ELSE LET eos == <<Len(L.node_list) - 1, 0>> IN
         With(collect(L, mode, eos), LAMBDA collected_nodes :
         With(best_path(L, eos), LAMBDA path :
         LET kept == Cardinality({i \in 1..Len(path) :
                                    mode # LatticeMode.Extended
                                    \/ path[i].class # NodeClass.Unknown})
         IN  [L EXCEPT !.output = Reverse(collected_nodes),
                       !.got = @ + (Len(collected_nodes) - kept)]))

(***************************************************************************)
(* Tokenizer                                                               *)
(***************************************************************************)
\* the Token analyze_impl constructs from output()[i]
MakeToken(i, node) ==
    [index |-> i, id |-> node.id, class |-> node.class,
     position |-> node.position, start |-> node.position,
     end |-> node.position + Len(node.surface), surface |-> node.surface]

RECURSIVE project(_, _, _)
project(output, i, omit_bos_eos) ==
    IF i >= Len(output) THEN <<>>
    ELSE (IF omit_bos_eos /\ is_bos_eos(output[i + 1]) THEN <<>>
          ELSE <<MakeToken(i, output[i + 1])>>)
         \o project(output, i + 1, omit_bos_eos)

\* Tokenizer::analyze_impl: [tokens, dict, lattice]; dict is the dictionary
\* object after the call (the lattice works on the tokenizer's own Dict)
analyze_impl(dict, input, mode, omit_bos_eos) ==
    With(backward(forward(build(NewLattice(dict), input), mode), mode), LAMBDA L :
        [tokens |-> project(L.output, 0, omit_bos_eos), dict |-> L.dict,
         lattice |-> L])

(***************************************************************************)
(* Token                                                                   *)
(***************************************************************************)
\* the names of pos_ids[k..] that pos_table.name_list holds
RECURSIVE pos_names(_, _, _)
pos_names(dict, pos_ids, k) ==
    IF k > Len(pos_ids) THEN <<>>
    ELSE (IF pos_ids[k] < Len(dict.pos_table.name_list)
          THEN <<dict.pos_table.name_list[pos_ids[k] + 1]>> ELSE <<>>)
         \o pos_names(dict, pos_ids, k + 1)

\* Token::features (a negative id is a huge size_t and passes no bound check)
features(dict, tok) ==
    IF tok.class = NodeClass.Known
    THEN (IF tok.id >= 0 /\ tok.id < Len(dict.pos_table.pos_entries)
          THEN pos_names(dict, dict.pos_table.pos_entries[tok.id + 1], 1)
          ELSE <<>>)
         \o (IF tok.id >= 0 /\ tok.id < Len(dict.contents)
             THEN dict.contents[tok.id + 1] ELSE <<>>)
    ELSE IF tok.class = NodeClass.Unknown
    THEN (IF tok.id < 0 \/ tok.id >= Len(dict.unk_dict.contents) THEN <<>>
          ELSE dict.unk_dict.contents[tok.id + 1])
    ELSE <<>>

\* Token::feature_at: <<>> is std::nullopt, <<f>> holds the feature f
feature_at(dict, tok, index) ==
    With(features(dict, tok), LAMBDA f :
        IF index >= Len(f) THEN <<>> ELSE <<f[index + 1]>>)

\* Token::pos
pos(dict, tok) ==
    IF tok.class = NodeClass.Known
    THEN With(IF tok.id >= 0 /\ tok.id < Len(dict.pos_table.pos_entries)
              THEN pos_names(dict, dict.pos_table.pos_entries[tok.id + 1], 1)
              ELSE <<>>, LAMBDA pos_names_ :
         With(feature_at(dict, tok, 0), LAMBDA pos1 :
         With(feature_at(dict, tok, 1), LAMBDA pos2 :
             IF pos_names_ # <<>> THEN pos_names_
             ELSE (IF pos1 # <<>> /\ pos1 # <<Asterisk>> THEN pos1 ELSE <<>>)
                  \o (IF pos2 # <<>> /\ pos2 # <<Asterisk>> THEN pos2 ELSE <<>>))))
    ELSE IF tok.class = NodeClass.Unknown
    THEN LET meta == dict.unk_dict.contents_meta
             start == IF "_pos_start" \in DOMAIN meta THEN meta["_pos_start"] ELSE 0
             hierarchy == IF "_pos_hierarchy" \in DOMAIN meta
                          THEN meta["_pos_hierarchy"] ELSE 1
             end == start + hierarchy
         IN  IF tok.id < 0 \/ tok.id >= Len(dict.unk_dict.contents) THEN <<>>
             ELSE IF start >= end \/ end > Len(dict.unk_dict.contents[tok.id + 1])
             THEN <<>>
             ELSE SubSeq(dict.unk_dict.contents[tok.id + 1], start + 1, end)
    ELSE <<>>

\* Token::pickup_from_features
pickup_from_features(dict, tok, key) ==
    LET meta == IF tok.class = NodeClass.Known THEN dict.contents_meta
                ELSE dict.unk_dict.contents_meta
    IN  IF tok.class \notin {NodeClass.Known, NodeClass.Unknown} THEN <<>>
        ELSE IF key \notin DOMAIN meta THEN <<>>
        ELSE feature_at(dict, tok, meta[key])

\* Token::base_form
base_form(dict, tok) ==
    With(pickup_from_features(dict, tok, "_base"), LAMBDA base :
    With(feature_at(dict, tok, 2), LAMBDA feature :
        IF base # <<>> /\ base # <<Asterisk>> THEN base[1]
        ELSE IF feature # <<>> THEN feature[1] ELSE Asterisk))


\* the surfaces of a token list in output order, BOS/EOS excluded
RECURSIVE SurfacesFrom(_, _)
SurfacesFrom(toks, i) ==
    IF i > Len(toks) THEN <<>>
    ELSE (IF toks[i].id = BOS_EOS_ID THEN <<>> ELSE <<toks[i].surface>>)
         \o SurfacesFrom(toks, i + 1)

Surfaces(toks) == SurfacesFrom(toks, 1)

\* the start positions of a token list in output order, BOS/EOS excluded
RECURSIVE StartsFrom(_, _)
StartsFrom(toks, i) ==
    IF i > Len(toks) THEN <<>>
    ELSE (IF toks[i].id = BOS_EOS_ID THEN <<>> ELSE <<toks[i].start>>)
         \o StartsFrom(toks, i + 1)

Starts(toks) == StartsFrom(toks, 1)

(***************************************************************************)
(* Host ABI: memory                                                        *)
(***************************************************************************)
\* pointers: the null pointer, an address k bytes into the caller's text
\* buffer, the heap block k, an address that is neither
nullptr == [region |-> "null", off |-> 0]
TextPtr(k) == [region |-> "text", off |-> k]
HeapPtr(k) == [region |-> "heap", off |-> k]
WildPtr == [region |-> "wild", off |-> 0]

\* a kvec as kv_init / cleanup leave it
ZeroResult == [a |-> nullptr, n |-> 0, m |-> 0]

\* rspamd_word_t as calloc returns it
ZeroWord ==
    [original |-> [begin |-> nullptr, len |-> 0],
     unicode |-> [begin |-> nullptr, len |-> 0],
     normalized |-> [begin |-> nullptr, len |-> 0],
     stemmed |-> [begin |-> nullptr, len |-> 0],
     flags |-> {}]

\* the memory a call works on: the heap (block k is heap[k]), the caller's
\* kvec, the pointers passed to free, the undefined behaviour run into, the
\* number of malloc / calloc calls made so far
NewMem(heap, result) ==
    [heap |-> heap, result |-> result, freed |-> <<>>, faults |-> {},
     allocs |-> 0]

IsLive(heap, p) ==
    p.region = "heap" /\ p.off \in 1..Len(heap) /\ heap[p.off].live

\* malloc / calloc: the fault makes the fault.at-th allocation of the call
\* return NULL
Alloc(M, kind, data, fault) ==
    LET fails == fault.kind = "malloc" /\ fault.at = M.allocs + 1
    IN  [M |-> [M EXCEPT !.allocs = @ + 1,
                         !.heap = IF fails THEN @
                                  ELSE Append(@, [kind |-> kind, data |-> data,
                                                  live |-> TRUE])],
         ptr |-> IF fails THEN nullptr ELSE HeapPtr(Len(M.heap) + 1)]

\* free(p) for p # NULL: releasing anything but a live block is undefined
free(M, p) ==
    IF IsLive(M.heap, p)
    THEN [M EXCEPT !.heap[p.off].live = FALSE, !.freed = Append(@, p)]
    ELSE [M EXCEPT !.freed = Append(@, p),
                   !.faults = @ \cup {IF p.region = "heap" THEN "double free"
                                      ELSE "invalid free"}]

\* if (word.field.begin) { free(word.field.begin); word.field.begin = nullptr; }
free_field(M, a, i, field) ==
    IF M.heap[a.off].data[i][field].begin = nullptr THEN M
    ELSE [free(M, M.heap[a.off].data[i][field].begin)
            EXCEPT !.heap[a.off].data[i][field].begin = nullptr]

\* the loop of kagome_cleanup_result over result->a[i .. n-1]; the second
\* implementation also frees original.begin
RECURSIVE cleanup_words(_, _, _, _, _)
cleanup_words(unit, M, a, i, n) ==
    IF i > n THEN M
    ELSE IF i > Len(M.heap[a.off].data)
    THEN [M EXCEPT !.faults = @ \cup {"read past the array"}]
    ELSE LET M0 == IF unit = "part_002" THEN free_field(M, a, i, "original")
                   ELSE M
             M1 == free_field(M0, a, i, "unicode")
             M2 == free_field(M1, a, i, "normalized")
             M3 == free_field(M2, a, i, "stemmed")
         IN  cleanup_words(unit, M3, a, i + 1, n)

\* kagome_cleanup_result(result) with result # NULL
cleanup_result(unit, M) ==
    IF M.result.a = nullptr THEN M
    ELSE IF ~IsLive(M.heap, M.result.a)
    THEN [free(IF M.result.n > 0
               THEN [M EXCEPT !.faults = @ \cup {"invalid read"}] ELSE M,
               M.result.a)
            EXCEPT !.result = ZeroResult]
    ELSE [free(cleanup_words(unit, M, M.result.a, 1, M.result.n), M.result.a)
            EXCEPT !.result = ZeroResult]

(***************************************************************************)
(* Host ABI: kagome_tokenize                                               *)
(***************************************************************************)
RECURSIVE utf8_to_utf32_from(_, _)
utf8_to_utf32_from(utf8_str, i) ==
    IF i >= Len(utf8_str) THEN <<>>
    ELSE With(U8_NEXT(utf8_str, i), LAMBDA d :
             (IF d.c >= 0 THEN <<d.c>> ELSE <<>>)
             \o utf8_to_utf32_from(utf8_str, d.i))

\* utf8_to_utf32
utf8_to_utf32(utf8_str) == utf8_to_utf32_from(utf8_str, 0)

\* strdup_safe(str): one malloc holding a copy of str
strdup_safe(M, kind, str, fault) == Alloc(M, kind, str, fault)

\* the fallback search: the first p >= from where the surface occurs in text
\* on a UTF-8 boundary, -1 if there is none
RECURSIVE find_surface(_, _, _)
find_surface(text, surface, from) ==
    IF from > Len(text) - Len(surface) THEN -1
    ELSE IF substr(text, from, Len(surface)) = surface
            /\ (from = 0 \/ ~U8_IS_TRAIL(text[from + 1]))
    THEN from
    ELSE find_surface(text, surface, from + 1)

\* the valid_tokens vector: for each token that can be located in text, the
\* byte offset it is located at
RECURSIVE valid_tokens(_, _, _)
valid_tokens(text, toks, k) ==
    IF k > Len(toks) THEN <<>>
    ELSE LET surface == toks[k].surface
             len == Len(text)
             raw_start == toks[k].start
             in_place == /\ raw_start >= 0 /\ raw_start < len
                         /\ raw_start + Len(surface) <= len
                         /\ substr(text, raw_start, Len(surface)) = surface
                         /\ (raw_start = 0 \/ ~U8_IS_TRAIL(text[raw_start + 1]))
             found == find_surface(text, surface, 0)
         IN  (IF surface = <<>> \/ Len(surface) > len THEN <<>>
              ELSE IF in_place THEN <<[start |-> raw_start, token |-> toks[k]]>>
              ELSE IF found >= 0 THEN <<[start |-> found, token |-> toks[k]]>>
              ELSE <<>>)
             \o valid_tokens(text, toks, k + 1)

\* pos_vec[0] of token.pos(): the primary part of speech, <<>> when the
\* token has none
primary_pos(dict, tok) ==
    With(pos(dict, tok), LAMBDA pos_vec :
        IF pos_vec = <<>> THEN <<>> ELSE pos_vec[1])

\* the word loop of the plugin's kagome_tokenize from valid[k] on; threw:
\* building the UTF-32 vector of word fault.at raised std::bad_alloc
RECURSIVE fill_words(_, _, _, _, _, _)
fill_words(text, dict, valid, k, M, fault) ==
    IF k > Len(valid) THEN [M |-> M, threw |-> FALSE]
    ELSE IF valid[k].start >= Len(text)
            \/ valid[k].start + Len(valid[k].token.surface) > Len(text)
    THEN fill_words(text, dict, valid, k + 1, M, fault)
    ELSE IF fault.kind = "throw" /\ fault.at = k THEN [M |-> M, threw |-> TRUE]
    ELSE
    LET surface == valid[k].token.surface IN
    With(base_form(dict, valid[k].token), LAMBDA base :
    With(pos(dict, valid[k].token), LAMBDA pos_vec :
    With(utf8_to_utf32(surface), LAMBDA utf32_chars :
    LET normalized_source == IF base # <<>> /\ base # Asterisk THEN base
                             ELSE surface
        is_punctuation == pos_vec # <<>> /\ pos_vec[1] = Kigou
        is_particle_or_auxiliary ==
            /\ pos_vec # <<>> /\ ~is_punctuation
            /\ pos_vec[1] \in {Joshi, Jodoushi}
    IN
    With(IF ~is_punctuation /\ utf32_chars # <<>>
         THEN Alloc(M, "unicode", utf32_chars, fault)
         ELSE [M |-> M, ptr |-> nullptr], LAMBDA U :
    With(strdup_safe(U.M, "normalized", normalized_source, fault), LAMBDA N :
    With(IF N.ptr # nullptr
         THEN strdup_safe(N.M, "stemmed", normalized_source, fault)
         ELSE [M |-> N.M, ptr |-> nullptr], LAMBDA S :
    LET word ==
            [original |-> [begin |-> TextPtr(valid[k].start),
                           len |-> Len(surface)],
             unicode |-> [begin |-> U.ptr,
                          len |-> IF U.ptr = nullptr THEN 0
                                  ELSE Len(utf32_chars)],
             normalized |-> [begin |-> N.ptr,
                             len |-> IF N.ptr = nullptr THEN 0
                                     ELSE Len(normalized_source)],
             stemmed |-> [begin |-> S.ptr,
                          len |-> IF S.ptr = nullptr THEN 0
                                  ELSE Len(normalized_source)],
             flags |-> {"TEXT", "UTF", "NORMALISED"}
                       \cup (IF is_punctuation THEN {"EXCEPTION"} ELSE {})
                       \cup (IF is_particle_or_auxiliary THEN {"STOP_WORD"}
                             ELSE {})]
    IN  fill_words(text, dict, valid, k + 1,
                   [S.M EXCEPT !.heap[M.result.a.off].data[M.result.n + 1] = word,
                               !.result.n = @ + 1],
                   fault)))))))

\* catch (const std::exception &) { if (result->a) kagome_cleanup_result(result); }
catch_cleanup(unit, M) ==
    IF M.result.a # nullptr THEN cleanup_result(unit, M) ELSE M

\* the plugin's kagome_tokenize(text, len, result); g is g_tokenizer (<<>> when
\* empty); fault: the one malloc / calloc that returns NULL, or the place
\* where std::bad_alloc is thrown (0: constructing the input string)
kagome_tokenize_plugin(text_null, text, result_null, g, M, fault) ==
    IF text_null \/ Len(text) = 0 \/ result_null \/ g = <<>>
    THEN [M |-> M, ret |-> -1, g |-> g, emitted |-> <<>>, primary |-> <<>>]
    ELSE IF fault.kind = "throw" /\ fault.at = 0
    THEN [M |-> catch_cleanup("part_003", M), ret |-> -1, g |-> g,
          emitted |-> <<>>, primary |-> <<>>]
    ELSE
    With(analyze_impl(g[1].dict, text, g[1].config.default_mode,
                      g[1].config.omit_bos_eos), LAMBDA r :
    With(valid_tokens(text, r.tokens, 1), LAMBDA valid :
    With(Alloc(M, "words", [i \in 1..Len(valid) |-> ZeroWord], fault), LAMBDA A :
    LET g1 == <<[g[1] EXCEPT !.dict = r.dict]>> IN
    IF valid = <<>>
    THEN [M |-> [M EXCEPT !.result = ZeroResult], ret |-> 0, g |-> g1,
          emitted |-> <<>>, primary |-> <<>>]
    ELSE IF A.ptr = nullptr
    THEN [M |-> [A.M EXCEPT !.result.a = nullptr], ret |-> -1, g |-> g1,
          emitted |-> <<>>, primary |-> <<>>]
    ELSE
    With(fill_words(text, r.dict, valid, 1,
                    [A.M EXCEPT !.result = [a |-> A.ptr, n |-> 0,
                                            m |-> Len(valid)]],
                    fault), LAMBDA F :
    IF F.threw
    THEN [M |-> catch_cleanup("part_003", F.M), ret |-> -1, g |-> g1,
          emitted |-> <<>>, primary |-> <<>>]
    ELSE [M |-> F.M, ret |-> 0, g |-> g1,
          emitted |-> [i \in 1..Len(valid) |-> valid[i].token.surface],
          primary |-> [i \in 1..Len(valid) |->
                         primary_pos(r.dict, valid[i].token)]]))))

\* the word loop of the second kagome_tokenize from toks[k] on; status:
\* "failed" when the surface copy could not be allocated, "threw" when
\* token.base_form() of word fault.at raised std::bad_alloc
RECURSIVE fill_words_copy(_, _, _, _, _)
fill_words_copy(dict, toks, k, M, fault) ==
    IF k > Len(toks) THEN [M |-> M, status |-> "ok"]
    ELSE IF toks[k].surface = <<>> THEN fill_words_copy(dict, toks, k + 1, M, fault)
    ELSE
    LET surface == toks[k].surface
        a == M.result.a
        w == M.result.n + 1
    IN
    With(strdup_safe(M, "original", surface, fault), LAMBDA C :
    IF C.ptr = nullptr
    THEN [M |-> cleanup_result("part_002", C.M), status |-> "failed"]
    ELSE
    With(utf8_to_utf32(surface), LAMBDA utf32_chars :
    With(IF utf32_chars # <<>> THEN Alloc(C.M, "unicode", utf32_chars, fault)
         ELSE [M |-> C.M, ptr |-> nullptr], LAMBDA U :
    LET MU == [U.M EXCEPT
                 !.heap[a.off].data[w].original = [begin |-> C.ptr,
                                                   len |-> Len(surface)],
                 !.heap[a.off].data[w].unicode =
                     [begin |-> U.ptr,
                      len |-> IF U.ptr = nullptr THEN 0 ELSE Len(utf32_chars)]]
    IN
    IF fault.kind = "throw" /\ fault.at = w
    THEN [M |-> MU, status |-> "threw"]
    ELSE
    With(base_form(dict, toks[k]), LAMBDA base :
    LET normalized == IF base = <<>> \/ base = Asterisk THEN surface ELSE base IN
    With(strdup_safe(MU, "normalized", normalized, fault), LAMBDA N :
    With(strdup_safe(N.M, "stemmed", normalized, fault), LAMBDA S :
    With(pos(dict, toks[k]), LAMBDA pos_vec :
    LET MS == [S.M EXCEPT
                 !.heap[a.off].data[w].normalized =
                     [begin |-> N.ptr,
                      len |-> IF N.ptr = nullptr THEN 0 ELSE Len(normalized)],
                 !.heap[a.off].data[w].stemmed =
                     [begin |-> S.ptr,
                      len |-> IF S.ptr = nullptr THEN 0 ELSE Len(normalized)],
                 !.heap[a.off].data[w].flags =
                     {"TEXT", "UTF", "NORMALISED"}
                     \cup (IF pos_vec # <<>>
                              /\ pos_vec[1] \in {Joshi, Jodoushi, Kigou}
                           THEN {"STOP_WORD"} ELSE {}),
                 !.result.n = @ + 1]
    IN  fill_words_copy(dict, toks, k + 1, MS, fault))))))))

\* the second kagome_tokenize(text, len, result), which copies each surface
kagome_tokenize_copy(text_null, text, result_null, g, M, fault) ==
    IF text_null \/ Len(text) = 0 \/ result_null \/ g = <<>>
    THEN [M |-> M, ret |-> -1, g |-> g, emitted |-> <<>>, primary |-> <<>>]
    ELSE IF fault.kind = "throw" /\ fault.at = 0
    THEN [M |-> catch_cleanup("part_002", M), ret |-> -1, g |-> g,
          emitted |-> <<>>, primary |-> <<>>]
    ELSE
    With(analyze_impl(g[1].dict, text, g[1].config.default_mode,
                      g[1].config.omit_bos_eos), LAMBDA r :
    With(Alloc(M, "words", [i \in 1..Len(r.tokens) |-> ZeroWord], fault), LAMBDA A :
    LET g1 == <<[g[1] EXCEPT !.dict = r.dict]>> IN
    IF A.ptr = nullptr
    THEN [M |-> [A.M EXCEPT !.result.a = nullptr], ret |-> -1, g |-> g1,
          emitted |-> <<>>, primary |-> <<>>]
    ELSE
    With(fill_words_copy(r.dict, r.tokens, 1,
                         [A.M EXCEPT !.result = [a |-> A.ptr, n |-> 0,
                                                 m |-> Len(r.tokens)]],
                         fault), LAMBDA F :
    IF F.status = "threw"
    THEN [M |-> catch_cleanup("part_002", F.M), ret |-> -1, g |-> g1,
          emitted |-> <<>>, primary |-> <<>>]
    ELSE IF F.status = "failed"
    THEN [M |-> F.M, ret |-> -1, g |-> g1, emitted |-> <<>>, primary |-> <<>>]
    ELSE [M |-> F.M, ret |-> 0, g |-> g1,
          emitted |-> Surfaces(SelectSeq(r.tokens, LAMBDA t : t.surface # <<>>)),
          primary |-> With(SelectSeq(r.tokens, LAMBDA t : t.surface # <<>>),
                           LAMBDA toks :
                               [i \in 1..Len(toks) |->
                                  primary_pos(r.dict, toks[i])])])))

(***************************************************************************)
(* Host ABI: kagome_detect_language                                        *)
(***************************************************************************)
\* uscript_getScript(ch, &error) as far as the three scripts tested go;
\* "error" when ch is not a code point (U_ILLEGAL_ARGUMENT_ERROR)
uscript_getScript(ch) ==
    IF ch < 0 \/ ch > 1114111 THEN "error"
    ELSE IF (ch >= 12353 /\ ch <= 12438) \/ (ch >= 12445 /\ ch <= 12447)
    THEN "USCRIPT_HIRAGANA"
    ELSE IF \/ (ch >= 12449 /\ ch <= 12538) \/ (ch >= 12541 /\ ch <= 12543)
            \/ (ch >= 12784 /\ ch <= 12799) \/ (ch >= 65382 /\ ch <= 65391)
            \/ (ch >= 65393 /\ ch <= 65437)
    THEN "USCRIPT_KATAKANA"
    ELSE IF \/ (ch >= 11904 /\ ch <= 12019) \/ (ch >= 12032 /\ ch <= 12245)
            \/ ch = 12293 \/ ch = 12295 \/ (ch >= 12321 /\ ch <= 12329)
            \/ (ch >= 12344 /\ ch <= 12347) \/ (ch >= 13312 /\ ch <= 19903)
            \/ (ch >= 19968 /\ ch <= 40959) \/ (ch >= 63744 /\ ch <= 64217)
            \/ (ch >= 131072 /\ ch <= 205743)
    THEN "USCRIPT_HAN"
    ELSE "other"

JapaneseScripts == {"USCRIPT_HIRAGANA", "USCRIPT_KATAKANA", "USCRIPT_HAN"}

\* contains_japanese_chars from byte offset from on
RECURSIVE contains_japanese_chars(_, _)
contains_japanese_chars(text, from) ==
    IF from >= Len(text) THEN FALSE
    ELSE With(U8_NEXT(text, from), LAMBDA d :
             uscript_getScript(d.c) \in JapaneseScripts
             \/ contains_japanese_chars(text, d.i))

\* the counting loop of kagome_detect_language from byte offset from on
RECURSIVE density(_, _)
density(text, from) ==
    IF from >= Len(text) THEN [total_chars |-> 0, japanese_chars |-> 0]
    ELSE With(U8_NEXT(text, from), LAMBDA d :
         With(density(text, d.i), LAMBDA r :
             [total_chars |-> r.total_chars + 1,
              japanese_chars |-> r.japanese_chars
                  + (IF uscript_getScript(d.c) \in JapaneseScripts THEN 1
                     ELSE 0)]))

\* a double as the exact fraction <<numerator, denominator>>, denominator > 0
Less(x, y) == x[1] * y[2] < y[1] * x[2]

min(x, y) == IF Less(y, x) THEN y ELSE x

max(x, y) == IF Less(x, y) THEN y ELSE x

\* 0.3 + ratio * 0.65 with ratio = japanese_chars / total_chars
confidence(japanese_chars, total_chars) ==
    <<6 * total_chars + 13 * japanese_chars, 20 * total_chars>>

\* kagome_detect_language(text, len)
detect_language(text_null, text) ==
    IF text_null \/ Len(text) = 0 THEN <<-1, 1>>
    ELSE IF contains_japanese_chars(text, 0)
    THEN With(density(text, 0), LAMBDA c :
             IF c.total_chars > 0
             THEN max(<<3, 10>>,
                      min(<<19, 20>>,
                          confidence(c.japanese_chars, c.total_chars)))
             ELSE <<-1, 1>>)
    ELSE <<-1, 1>>

(***************************************************************************)
(* Inputs                                                                  *)
(***************************************************************************)
Sumomo ==
    <<227, 129, 153, 227, 130, 130, 227, 130, 130, 227, 130, 130,
      227, 130, 130, 227, 130, 130, 227, 130, 130, 227, 130, 130,
      227, 130, 130, 227, 129, 174, 227, 129, 134, 227, 129, 161>>

Kansai ==
    <<233, 150, 162, 232, 165, 191, 229, 155, 189,
      233, 154, 155, 231, 169, 186, 230, 184, 175>>

\* the texts the callers pass: the two scenario sentences, a Katakana run
\* (U+30C7 U+30B8), " [" (Space, Default), "a" then a stray trail byte then
\* the particle U+3082, the empty text, a lone trail byte, "abcdefgh"
Texts ==
    << Sumomo, Kansai, <<227, 131, 135, 227, 130, 184>>, <<32, 91>>,
       <<97, 128, 227, 130, 130>>, <<>>, <<128>>,
       <<97, 98, 99, 100, 101, 102, 103, 104>> >>

\* the dictionaries a Tokenizer is constructed with
Dictionaries ==
    {FallbackDict, WordsDict(UnkComprehensive), WordsDict(UnkMinimal),
     WordsDict(UnkWithDup), WordsDupDict}

Modes == {LatticeMode.Normal, LatticeMode.Search, LatticeMode.Extended}

(***************************************************************************)
(* State                                                                   *)
(***************************************************************************)
VARIABLES
    tokenizer,      \* the C++ Tokenizer object: [dict, config]
    tokens,         \* what the last Tokenizer::analyze returned
    first,          \* <<text, mode>> -> what the first analyze of it returned
    last,           \* the last operation: [op, input, mode, dict_before]
    calls,          \* number of calls made so far
    linked,         \* which kagome_tokenize / kagome_cleanup_result is linked
    g_tokenizer,    \* the global tokenizer: <<>> or <<Tokenizer>>
    result,         \* the host's rspamd_words_t: [a, n, m]
    heap,           \* malloc'ed blocks by address: [kind, data, live]
    api,            \* the last host ABI call and what it did
    origin,         \* where the kvec's contents come from
    lattice,        \* the Lattice of the last analyze_impl, as it returned
    node_pool_,     \* the static Lattice::node_pool_
    thread,         \* per thread: its own Lattice and where it is in a call
    archive,        \* the dictionary archive at zip_path: member -> its stream
    dictionary,     \* what DictLoader::load_from_zip returned
    table,          \* an IndexTable and the memory in front of its array
    lookup          \* the last key looked up in table and what was found

vars == <<tokenizer, tokens, first, last, calls,
          linked, g_tokenizer, result, heap, api, origin, lattice, node_pool_, thread,
          archive, dictionary, table, lookup>>

api_vars == <<linked, g_tokenizer, result, heap, api, origin>>

engine_vars == <<tokenizer, tokens, first, last>>

pool_vars == <<lattice, node_pool_>>

loader_vars == <<archive, dictionary>>

trie_vars == <<table, lookup>>

NoApi ==
    [op |-> "none", ret |-> 0, text |-> 0, hit |-> "none", text_null |-> FALSE,
     result_null |-> FALSE, initialised |-> FALSE, freed |-> <<>>, faults |-> {}, result_before |-> ZeroResult,
     heap_before |-> <<>>, emitted |-> <<>>, primary |-> <<>>,
     confidence |-> <<>>]

HostOrigin == [op |-> "host", ret |-> 0, owned |-> {}, cleanups |-> 0]

DefaultConfig == [omit_bos_eos |-> FALSE, default_mode |-> LatticeMode.Normal]

NoOp == [op |-> "none", input |-> 0, mode |-> 0, dict_before |-> NULL]

\* no thread besides the caller's
NoThreads == <<>>

\* factory::create_tokenizer(dictionary, config)
create_tokenizer(dict, config) == [dict |-> dict, config |-> config]

\* no archive is being loaded and no key looked up
NoLoad ==
    /\ archive = NULL
    /\ dictionary = <<>>
    /\ table = NULL
    /\ lookup = NULL

\* the TokenizerConfig values the callers construct a Tokenizer with
Configs == {[DefaultConfig EXCEPT !.omit_bos_eos = b] : b \in BOOLEAN}

Init ==
    /\ \E d \in Dictionaries, config \in Configs :
           tokenizer = create_tokenizer(d, config)
    /\ tokens = <<>>
    /\ first = EmptyMap
    /\ last = NoOp
    /\ calls = 0
    /\ linked = "part_003"
    /\ g_tokenizer = <<>>
    /\ result = ZeroResult
    /\ heap = <<>>
    /\ api = NoApi
    /\ origin = HostOrigin
    /\ NoLoad
    /\ lattice = NewLattice(NULL)
    /\ node_pool_ = NewPool
    /\ thread = NoThreads

\* Tokenizer::analyze(input, mode) with input = Texts[t]
analyze(t, mode) ==
    /\ calls < MaxCalls
    /\ \E r \in {analyze_impl(tokenizer.dict, Texts[t], mode,
                                tokenizer.config.omit_bos_eos)} :
           /\ tokens' = r.tokens
           /\ tokenizer' = [tokenizer EXCEPT !.dict = r.dict]
           /\ first' = IF <<t, mode>> \in DOMAIN first THEN first
                       ELSE [k \in (DOMAIN first) \cup {<<t, mode>>} |->
                               IF k = <<t, mode>> THEN r.tokens ELSE first[k]]
           /\ last' = [op |-> "analyze", input |-> t, mode |-> mode,
                       dict_before |-> tokenizer.dict]
           /\ lattice' = r.lattice
           /\ node_pool_' = gets(node_pool_, r.lattice.got)
    /\ calls' = calls + 1
    /\ UNCHANGED api_vars
    /\ UNCHANGED thread
    /\ UNCHANGED <<loader_vars, trie_vars>>

Next ==
    \/ \E t \in DOMAIN Texts, mode \in Modes : analyze(t, mode)

Spec == Init /\ [][Next]_vars

\* a Tokenizer over any dictionary load_from_zip can return, the one compiled
\* from the Shift_JIS lexicon included
InitSjis ==
    /\ \E d \in Dictionaries \cup {SjisDict}, config \in Configs :
           tokenizer = create_tokenizer(d, config)
    /\ tokens = <<>>
    /\ first = EmptyMap
    /\ last = NoOp
    /\ calls = 0
    /\ linked = "part_003"
    /\ g_tokenizer = <<>>
    /\ result = ZeroResult
    /\ heap = <<>>
    /\ api = NoApi
    /\ origin = HostOrigin
    /\ NoLoad
    /\ lattice = NewLattice(NULL)
    /\ node_pool_ = NewPool
    /\ thread = NoThreads

SpecSjis == InitSjis /\ [][Next]_vars

(***************************************************************************)
(* Host ABI: the calls the host makes                                      *)
(***************************************************************************)
\* the texts the host passes to kagome_tokenize (indices into Texts)
ApiTexts == {4, 5, 6, 7}

\* what kagome_init ends up with: <<>> when creating the tokenizer threw,
\* else the dictionary that was found or the fallback dictionary
InitOutcomes ==
    {<<>>} \cup {<<d>> : d \in {FallbackDict, WordsDict(UnkComprehensive)}}

\* the kvec the host hands over: kv_init'ed, or not initialised at all
\* (whatever the stack held)
HostResults ==
    {ZeroResult} \cup {[a |-> p, n |-> 1, m |-> 1] : p \in {nullptr, WildPtr}}

Faults ==
    {[kind |-> "none", at |-> 0]}
    \cup {[kind |-> "malloc", at |-> k] : k \in 1..MaxFailAt}
    \cup {[kind |-> "throw", at |-> k] : k \in 0..MaxThrowAt}

TokenizeArgs ==
    {[text_null |-> FALSE, t |-> t, result_null |-> FALSE] : t \in ApiTexts}
    \cup {[text_null |-> TRUE, t |-> 4, result_null |-> FALSE],
          [text_null |-> FALSE, t |-> 4, result_null |-> TRUE]}

InitApi ==
    /\ tokenizer = create_tokenizer(FallbackDict, DefaultConfig)
    /\ tokens = <<>>
    /\ first = EmptyMap
    /\ last = NoOp
    /\ calls = 0
    /\ linked \in {"part_003", "part_002"}
    /\ g_tokenizer = <<>>
    /\ result = ZeroResult
    /\ heap = <<>>
    /\ api = NoApi
    /\ origin = HostOrigin
    /\ NoLoad
    /\ lattice = NewLattice(NULL)
    /\ node_pool_ = NewPool
    /\ thread = NoThreads

\* kagome_init(config, error_buf, error_buf_size)
kagome_init(outcome) ==
    /\ calls < MaxApiCalls
    /\ g_tokenizer' = IF outcome = <<>> THEN g_tokenizer
                      ELSE <<create_tokenizer(outcome[1], DefaultConfig)>>
    /\ api' = [NoApi EXCEPT !.op = "init",
                            !.ret = IF outcome = <<>> THEN -1 ELSE 0,
                            !.result_before = result, !.heap_before = heap]
    /\ calls' = calls + 1
    /\ UNCHANGED <<linked, result, heap, origin>>
    /\ UNCHANGED engine_vars
    /\ UNCHANGED pool_vars
    /\ UNCHANGED thread
    /\ UNCHANGED <<loader_vars, trie_vars>>

\* a kagome_deinit that leaves the stored tokenizer in place
kagome_deinit_keep ==
    /\ calls < MaxApiCalls
    /\ g_tokenizer' = g_tokenizer
    /\ api' = [NoApi EXCEPT !.op = "deinit", !.result_before = result,
                            !.heap_before = heap]
    /\ calls' = calls + 1
    /\ UNCHANGED <<linked, result, heap, origin>>
    /\ UNCHANGED engine_vars
    /\ UNCHANGED pool_vars
    /\ UNCHANGED thread
    /\ UNCHANGED <<loader_vars, trie_vars>>

\* kagome_deinit()
kagome_deinit ==
    /\ calls < MaxApiCalls
    /\ g_tokenizer' = <<>>
    /\ api' = [NoApi EXCEPT !.op = "deinit", !.result_before = result,
                            !.heap_before = heap]
    /\ calls' = calls + 1
    /\ UNCHANGED <<linked, result, heap, origin>>
    /\ UNCHANGED engine_vars
    /\ UNCHANGED pool_vars
    /\ UNCHANGED thread
    /\ UNCHANGED <<loader_vars, trie_vars>>

\* the host takes a new rspamd_words_t for the next call
host_result(r) ==
    /\ calls < MaxApiCalls
    /\ result' = r
    /\ origin' = HostOrigin
    /\ api' = [NoApi EXCEPT !.op = "host", !.result_before = result,
                            !.heap_before = heap]
    /\ calls' = calls + 1
    /\ UNCHANGED <<linked, g_tokenizer, heap>>
    /\ UNCHANGED engine_vars
    /\ UNCHANGED pool_vars
    /\ UNCHANGED thread
    /\ UNCHANGED <<loader_vars, trie_vars>>

\* kagome_tokenize(text, len, result) of the linked translation unit
kagome_tokenize(arg, fault) ==
    /\ calls < MaxApiCalls
    /\ \E R \in {IF linked = "part_003"
                  THEN kagome_tokenize_plugin(arg.text_null, Texts[arg.t],
                                              arg.result_null, g_tokenizer,
                                              NewMem(heap, result), fault)
                  ELSE kagome_tokenize_copy(arg.text_null, Texts[arg.t],
                                            arg.result_null, g_tokenizer,
                                            NewMem(heap, result), fault)} :
       LET guarded == arg.text_null \/ Len(Texts[arg.t]) = 0 \/ arg.result_null
                      \/ g_tokenizer = <<>>
           hit == IF guarded THEN "none"
                  ELSE IF fault.kind = "malloc" /\ fault.at <= R.M.allocs
                  THEN "malloc"
                  ELSE IF fault.kind = "throw" /\ R.ret # 0 THEN "throw"
                  ELSE "none"
       IN  /\ g_tokenizer' = R.g
           /\ result' = R.M.result
           /\ heap' = R.M.heap
           /\ api' = [op |-> "tokenize", ret |-> R.ret, text |-> arg.t,
                      hit |-> hit, text_null |-> arg.text_null,
                      result_null |-> arg.result_null,
                      initialised |-> g_tokenizer # <<>>, freed |-> R.M.freed,
                      faults |-> R.M.faults, result_before |-> result,
                      heap_before |-> heap, emitted |-> R.emitted,
                      primary |-> R.primary, confidence |-> <<>>]
           /\ origin' = IF arg.result_null THEN origin
                        ELSE [op |-> "tokenize", ret |-> R.ret,
                              owned |-> {k \in (Len(heap) + 1)..Len(R.M.heap) :
                                           R.M.heap[k].live},
                              cleanups |-> 0]
           /\ \E A \in {IF guarded \/ (fault.kind = "throw" /\ fault.at = 0)
                         THEN lattice
                         ELSE analyze_impl(g_tokenizer[1].dict, Texts[arg.t],
                                           g_tokenizer[1].config.default_mode,
                                           g_tokenizer[1].config.omit_bos_eos).lattice} :
                  /\ lattice' = A
                  /\ node_pool_' =
                        IF guarded \/ (fault.kind = "throw" /\ fault.at = 0)
                        THEN node_pool_
                        ELSE gets(node_pool_, A.got)
    /\ calls' = calls + 1
    /\ UNCHANGED linked
    /\ UNCHANGED engine_vars
    /\ UNCHANGED thread
    /\ UNCHANGED <<loader_vars, trie_vars>>

\* kagome_cleanup_result(result) of the linked translation unit
kagome_cleanup_result(result_null) ==
    /\ calls < MaxApiCalls
    /\ \E M \in {IF result_null THEN NewMem(heap, result)
                  ELSE cleanup_result(linked, NewMem(heap, result))} :
           /\ result' = M.result
           /\ heap' = M.heap
           /\ api' = [NoApi EXCEPT !.op = "cleanup", !.result_null = result_null,
                                   !.freed = M.freed, !.faults = M.faults,
                                   !.result_before = result,
                                   !.heap_before = heap]
    /\ origin' = IF result_null THEN origin
                 ELSE [origin EXCEPT !.cleanups = @ + 1]
    /\ calls' = calls + 1
    /\ UNCHANGED <<linked, g_tokenizer>>
    /\ UNCHANGED engine_vars
    /\ UNCHANGED pool_vars
    /\ UNCHANGED thread
    /\ UNCHANGED <<loader_vars, trie_vars>>

\* the texts the host asks the language of (indices into Texts)
DetectTexts == {1, 3, 4, 5, 6, 7}

\* kagome_detect_language(text, len) of either translation unit
kagome_detect_language(text_null, t) ==
    /\ calls < MaxApiCalls
    /\ api' = [NoApi EXCEPT !.op = "detect", !.text = t,
                            !.text_null = text_null,
                            !.result_before = result, !.heap_before = heap,
                            !.confidence = detect_language(text_null, Texts[t])]
    /\ calls' = calls + 1
    /\ UNCHANGED <<linked, g_tokenizer, result, heap, origin>>
    /\ UNCHANGED engine_vars
    /\ UNCHANGED pool_vars
    /\ UNCHANGED thread
    /\ UNCHANGED <<loader_vars, trie_vars>>

NextApi ==
    \/ \E text_null \in BOOLEAN, t \in DetectTexts :
           kagome_detect_language(text_null, t)
    \/ \E outcome \in InitOutcomes : kagome_init(outcome)
    \/ kagome_deinit
    \/ \E r \in HostResults : host_result(r)
    \/ \E arg \in TokenizeArgs, fault \in Faults : kagome_tokenize(arg, fault)
    \/ \E result_null \in BOOLEAN : kagome_cleanup_result(result_null)

SpecApi == InitApi /\ [][NextApi]_vars

(***************************************************************************)
(* Threads that each work on a Lattice of their own                        *)
(***************************************************************************)
Threads == {1, 2}

\* the texts the threads build their lattices from (indices into Texts)
ThreadTexts == {6, 7}

\* the number of nodes in node_list_
RECURSIVE NodeCount(_, _)
NodeCount(node_list, i) ==
    IF i > Len(node_list) THEN 0
    ELSE Len(node_list[i]) + NodeCount(node_list, i + 1)

\* Lattice::clear: the lattice it leaves
clear(L) == [L EXCEPT !.node_list = <<>>, !.output = <<>>]

\* the node_pool_ calls a Lattice method makes, in order
Puts(n) == [i \in 1..n |-> "put"]
Gets(n) == [i \in 1..n |-> "get"]

\* where a thread is: idle between two method calls, running inside a method,
\* or inside ObjectPool::get / ObjectPool::put; todo holds the pool calls the
\* method has still to make, next the lattice as the method leaves it
IdleThread(L) ==
    [pc |-> "idle", lattice |-> L, todo |-> <<>>, next |-> L, calls |-> 0]

InitThreads ==
    /\ tokenizer = create_tokenizer(WordsDict(UnkComprehensive), DefaultConfig)
    /\ tokens = <<>>
    /\ first = EmptyMap
    /\ last = NoOp
    /\ calls = 0
    /\ linked = "part_003"
    /\ g_tokenizer = <<>>
    /\ result = ZeroResult
    /\ heap = <<>>
    /\ api = NoApi
    /\ origin = HostOrigin
    /\ NoLoad
    /\ lattice = NewLattice(NULL)
    /\ node_pool_ = NewPool
    /\ thread = [t \in Threads |-> IdleThread(NewLattice(tokenizer.dict))]

\* thread t enters a Lattice method that leaves the lattice as L after the
\* pool calls ops
Enter(t, L, ops) ==
    /\ thread[t].pc = "idle"
    /\ thread[t].calls < MaxThreadCalls
    /\ thread' = [thread EXCEPT ![t].pc = "running", ![t].next = L,
                                ![t].todo = ops, ![t].calls = @ + 1]
    /\ UNCHANGED <<engine_vars, calls, api_vars, pool_vars>>
    /\ UNCHANGED <<loader_vars, trie_vars>>

\* thread t calls lattice->build(Texts[k])
Lattice_build(t, k) ==
    \E L \in {build(clear(thread[t].lattice), Texts[k])} :
        Enter(t, L,
              Puts(NodeCount(thread[t].lattice.node_list, 1)
                   + Len(thread[t].lattice.output))
              \o Gets(L.got - thread[t].lattice.got))

\* thread t calls lattice->forward(mode)
Lattice_forward(t, mode) ==
    \E L \in {forward(thread[t].lattice, mode)} : Enter(t, L, <<>>)

\* thread t calls lattice->backward(mode)
Lattice_backward(t, mode) ==
    \E L \in {backward(thread[t].lattice, mode)} :
        Enter(t, L, Gets(L.got - thread[t].lattice.got))

\* thread t calls lattice->clear()
Lattice_clear(t) ==
    \E L \in {clear(thread[t].lattice)} :
        Enter(t, L, Puts(NodeCount(thread[t].lattice.node_list, 1)
                         + Len(thread[t].lattice.output)))

\* thread t enters node_pool_.get() or node_pool_.put(node)
pool_enter(t) ==
    /\ thread[t].pc = "running"
    /\ thread[t].todo # <<>>
    /\ thread' = [thread EXCEPT ![t].pc = thread[t].todo[1]]
    /\ UNCHANGED <<engine_vars, calls, api_vars, pool_vars>>
    /\ UNCHANGED <<loader_vars, trie_vars>>

\* thread t leaves node_pool_.get() or node_pool_.put(node); pool_ is a plain
\* std::vector, so when another thread is inside the pool as well the update
\* of one of them may be lost
pool_exit(t) ==
    /\ thread[t].pc \in {"get", "put"}
    /\ \E P \in {IF thread[t].pc = "get" THEN get(node_pool_)
                  ELSE put(node_pool_)} :
           node_pool_' \in
               IF \E u \in Threads \ {t} : thread[u].pc \in {"get", "put"}
               THEN {P, [P EXCEPT !.pool_ = node_pool_.pool_]}
               ELSE {P}
    /\ thread' = [thread EXCEPT ![t].pc = "running", ![t].todo = Tail(@)]
    /\ UNCHANGED <<engine_vars, calls, api_vars, lattice>>
    /\ UNCHANGED <<loader_vars, trie_vars>>

\* the method thread t is in returns
method_return(t) ==
    /\ thread[t].pc = "running"
    /\ thread[t].todo = <<>>
    /\ thread' = [thread EXCEPT ![t].pc = "idle",
                                ![t].lattice = thread[t].next]
    /\ UNCHANGED <<engine_vars, calls, api_vars, pool_vars>>
    /\ UNCHANGED <<loader_vars, trie_vars>>

NextThreads ==
    \/ \E t \in Threads, k \in ThreadTexts : Lattice_build(t, k)
    \/ \E t \in Threads, mode \in Modes : Lattice_forward(t, mode)
    \/ \E t \in Threads, mode \in Modes : Lattice_backward(t, mode)
    \/ \E t \in Threads : Lattice_clear(t)
    \/ \E t \in Threads : pool_enter(t)
    \/ \E t \in Threads : pool_exit(t)
    \/ \E t \in Threads : method_return(t)

SpecThreads == InitThreads /\ [][NextThreads]_vars

(***************************************************************************)
(* DictLoader::load_from_zip                                               *)
(***************************************************************************)
\* the member names load_from_zip knows, dict.info apart
Members ==
    {"morph.dict", "pos.dict", "content.meta", "content.dict", "index.dict",
     "connection.dict", "chardef.dict", "unk.dict"}

\* what the archive holds for a member: nothing, a stream its loader decodes,
\* or a stream its loader cannot decode (truncated, sizes beyond the sanity
\* limits, not a gob); for dict.info also a stream archive_read_data cannot
\* read in full; "zip" says whether archive_read_open_filename succeeds
Archives ==
    {[m \in Members \cup {"dict.info", "zip"} |->
         IF m = "zip" THEN z ELSE IF m = "dict.info" THEN i ELSE f[m]] :
       f \in [Members -> {"absent", "good", "bad"}],
       i \in {"absent", "good", "unreadable"},
       z \in {"good", "unopenable"}}

\* the per-member functions load_morphs_dict ... load_unk_dict applied to a
\* stream: [ok, data]; ok is the bool returned, data says what the Dict field
\* holds afterwards: "decoded" (what the stream encodes), "builtin" (the
\* data the member loader writes instead) or "empty" (as default-constructed)
load_member(m, stream) ==
    IF m \in {"morph.dict", "index.dict", "connection.dict", "content.dict"}
    THEN IF stream = "good" THEN [ok |-> TRUE, data |-> "decoded"]
         ELSE [ok |-> FALSE, data |-> "empty"]
    ELSE IF m = "chardef.dict" THEN [ok |-> TRUE, data |-> "builtin"]
    ELSE IF stream = "good" THEN [ok |-> TRUE, data |-> "decoded"]
    ELSE [ok |-> TRUE, data |-> "builtin"]

\* DictLoader::create_fallback_dict: every field holds the fallback data
create_fallback_dict == [m \in Members |-> "fallback"]

\* DictLoader::load_from_zip(zip_path, full) on the archive a
load_from_zip(a, full) ==
    IF a["zip"] = "unopenable" THEN create_fallback_dict
    ELSE LET skipped(m) == ~full /\ m = "content.dict"
             success ==
                 /\ a["dict.info"] # "unreadable"
                 /\ \A m \in Members :
                        (a[m] # "absent" /\ ~skipped(m)) => load_member(m, a[m]).ok
         IN  IF ~success THEN create_fallback_dict
             ELSE [m \in Members |->
                     IF a[m] = "absent" \/ skipped(m) THEN "empty"
                     ELSE load_member(m, a[m]).data]

\* the state before an archive is loaded
InitLoad ==
    /\ tokenizer = create_tokenizer(FallbackDict, DefaultConfig)
    /\ tokens = <<>>
    /\ first = EmptyMap
    /\ last = NoOp
    /\ calls = 0
    /\ linked = "part_003"
    /\ g_tokenizer = <<>>
    /\ result = ZeroResult
    /\ heap = <<>>
    /\ api = NoApi
    /\ origin = HostOrigin
    /\ lattice = NewLattice(NULL)
    /\ node_pool_ = NewPool
    /\ thread = NoThreads
    /\ archive \in Archives
    /\ dictionary = <<>>
    /\ table = NULL
    /\ lookup = NULL

\* DictLoader::load_from_zip(zip_path, full) is called
LoadFromZip(full) ==
    /\ dictionary = <<>>
    /\ dictionary' = <<load_from_zip(archive, full)>>
    /\ UNCHANGED <<engine_vars, calls, api_vars, pool_vars, thread>>
    /\ UNCHANGED <<archive, trie_vars>>

NextLoad == \E full \in BOOLEAN : LoadFromZip(full)

SpecLoad == InitLoad /\ [][NextLoad]_vars

(***************************************************************************)
(* IndexTable lookups                                                      *)
(***************************************************************************)
\* every double array of three cells over small base and check values, with
\* what lies in front of the array, with and without a duplicate count
SmallTables ==
    {[da |-> DoubleArray(3, (0 :> c0) @@ (1 :> c1) @@ (2 :> c2)),
      dup |-> d, before |-> w] :
        c0 \in {DANode(b, -1) : b \in -1..1},
        c1 \in {DANode(b, c) : b \in -1..1, c \in -1..2},
        c2 \in {DANode(b, c) : b \in -1..1, c \in -1..2},
        d \in {EmptyMap, (1 :> 1)},
        w \in {DANode(0, -1), DANode(-1, 1)}}

\* the index of the nine-word dictionary
WordsTable == [WordsDict(UnkComprehensive).index EXCEPT !.dup = (5 :> 2)]

Tables == SmallTables \cup {WordsTable}

\* the byte strings over {0, 1, 2} of length n
RECURSIVE ByteStrings(_)
ByteStrings(n) ==
    IF n = 0 THEN {<<>>}
    ELSE {Append(k, b) : k \in ByteStrings(n - 1), b \in 0..2}

RECURSIVE KeysUpTo(_)
KeysUpTo(n) == IF n = 0 THEN ByteStrings(0) ELSE ByteStrings(n) \cup KeysUpTo(n - 1)

\* the keys looked up: short byte strings, words the dictionary holds, and
\* strings it holds only a prefix of or nothing of
Keys ==
    KeysUpTo(MaxKeyLen)
    \cup {Kansai, SubSeq(Kansai, 1, 6), SubSeq(Kansai, 1, 3), SubSeq(Sumomo, 1, 9),
          SubSeq(Sumomo, 4, 9), SubSeq(Sumomo, 1, 12)}

NoLookup == [key |-> <<>>, search |-> <<>>, prefixes |-> <<>>, done |-> FALSE]

InitTrie ==
    /\ tokenizer = create_tokenizer(FallbackDict, DefaultConfig)
    /\ tokens = <<>>
    /\ first = EmptyMap
    /\ last = NoOp
    /\ calls = 0
    /\ linked = "part_003"
    /\ g_tokenizer = <<>>
    /\ result = ZeroResult
    /\ heap = <<>>
    /\ api = NoApi
    /\ origin = HostOrigin
    /\ lattice = NewLattice(NULL)
    /\ node_pool_ = NewPool
    /\ thread = NoThreads
    /\ archive = NULL
    /\ dictionary = <<>>
    /\ table \in Tables
    /\ lookup = NoLookup

\* table.search(k) and table.common_prefix_search_callback(k, callback)
Lookup(k) ==
    /\ ~lookup.done
    /\ lookup' = [key |-> k, search |-> search(table, k),
                  prefixes |-> common_prefix_search_callback(table, k),
                  done |-> TRUE]
    /\ UNCHANGED <<engine_vars, calls, api_vars, pool_vars, thread>>
    /\ UNCHANGED <<loader_vars, table>>

NextTrie == \E k \in Keys : Lookup(k)

SpecTrie == InitTrie /\ [][NextTrie]_vars

(***************************************************************************)
(* Properties                                                              *)
(***************************************************************************)
StrictlyIncreasing(seq) == \A i \in 1..(Len(seq) - 1) : seq[i] < seq[i + 1]

W_sumomo == SubSeq(Sumomo, 1, 9)
W_momo == SubSeq(Sumomo, 4, 9)
W_mo == SubSeq(Sumomo, 4, 6)
W_no == SubSeq(Sumomo, 28, 30)
W_uchi == SubSeq(Sumomo, 31, 36)
W_kansai == SubSeq(Kansai, 1, 6)
W_kokusai == SubSeq(Kansai, 7, 12)
W_kuukou == SubSeq(Kansai, 13, 18)

\* the word w is an entry of the dictionary's index
HasWord(dict, w) ==
    With(common_prefix_search_callback(dict.index, w), LAMBDA hits :
        \E k \in DOMAIN hits : hits[k][2] = Len(w))

ContainsWords(dict, ws) == \A w \in ws : HasWord(dict, w)

AnalyzedText(text, mode) ==
    last.op = "analyze" /\ Texts[last.input] = text /\ last.mode = mode

\* C1: with a dictionary holding sumomo, momo, mo, no and uchi, Normal-mode
\* analysis of the sumomo sentence returns the eight surfaces
\* [sumomo, mo, momo, mo, momo, mo, no, uchi] in that order
C1_EightSurfaces ==
    (AnalyzedText(Sumomo, LatticeMode.Normal)
     /\ ContainsWords(last.dict_before, {W_sumomo, W_momo, W_mo, W_no, W_uchi}))
    => Surfaces(tokens) =
         <<W_sumomo, W_mo, W_momo, W_mo, W_momo, W_mo, W_no, W_uchi>>

\* C2: with a dictionary holding the compound and its three parts, Normal mode
\* returns the compound as one token and Search mode returns the three parts
C2_SearchSplitsCompound ==
    (last.op = "analyze" /\ Texts[last.input] = Kansai
     /\ ContainsWords(last.dict_before, {Kansai, W_kansai, W_kokusai, W_kuukou}))
    => /\ last.mode = LatticeMode.Normal => Surfaces(tokens) = <<Kansai>>
       /\ last.mode = LatticeMode.Search
            => Surfaces(tokens) = <<W_kansai, W_kokusai, W_kuukou>>

\* C3: in every mode the tokens of one analyze call, BOS/EOS excluded, are in
\* strictly increasing start-position order
C3_IncreasingStarts ==
    last.op = "analyze" => StrictlyIncreasing(Starts(tokens))

\* C6: analysing never modifies the dictionary: every component of the Dict
\* is the same after the call as before it
C6_DictUnchanged ==
    last.op = "analyze" => tokenizer.dict = last.dict_before

\* C7: analysing an input in a mode returns the same tokens as the first
\* analysis of that input in that mode did, whatever was analysed in between
C7_SameOutput ==
    last.op = "analyze" => tokens = first[<<last.input, last.mode>>]

\* the words of the kvec r in the heap h
Words(h, r) ==
    IF r.a.region = "heap" /\ r.a.off \in 1..Len(h)
    THEN SubSeq(h[r.a.off].data, 1, r.n) ELSE <<>>

\* C4: every word kagome_tokenize emits has original.begin inside the caller's
\* buffer, original.begin + original.len within it, the bytes there equal to
\* the token's surface, and no copy of the surface is made
C4_OriginalInText ==
    (api.op = "tokenize" /\ api.ret = 0)
    => /\ \A i \in 1..result.n :
            LET w == Words(heap, result)[i]
            IN  /\ w.original.begin.region = "text"
                /\ w.original.begin.off + w.original.len <= Len(Texts[api.text])
                /\ substr(Texts[api.text], w.original.begin.off, w.original.len)
                     = api.emitted[i]
       /\ \A k \in (Len(api.heap_before) + 1)..Len(heap) :
            heap[k].kind # "original"

\* C5: the first kagome_cleanup_result on a result kagome_tokenize produced
\* frees exactly the blocks the core allocated for it, each once, and frees
\* neither an original.begin nor anything inside the caller's text
C5_CleanupFreesOwned ==
    (api.op = "cleanup" /\ ~api.result_null /\ origin.op = "tokenize"
     /\ origin.ret = 0 /\ origin.cleanups = 1)
    => /\ \A i, j \in DOMAIN api.freed : i # j => api.freed[i] # api.freed[j]
       /\ {api.freed[i] : i \in DOMAIN api.freed}
            = {HeapPtr(k) : k \in origin.owned}
       /\ \A i \in DOMAIN api.freed :
            /\ api.freed[i].region # "text"
            /\ \A j \in DOMAIN Words(api.heap_before, api.result_before) :
                 api.freed[i]
                   # Words(api.heap_before, api.result_before)[j].original.begin

\* C8: a non-zero return code comes only from kagome_init refusing or from an
\* allocation failure inside kagome_tokenize; on an initialised tokenizer
\* kagome_tokenize returns 0 with n = 0 for an empty input and for an input
\* that yields no tokens
C8_ReturnCodes ==
    /\ api.ret # 0
       => \/ api.op = "init"
          \/ api.op = "tokenize" /\ api.hit \in {"malloc", "throw"}
    /\ (api.op = "tokenize" /\ api.initialised /\ ~api.text_null
        /\ ~api.result_null /\ api.hit = "none"
        /\ (Texts[api.text] = <<>> \/ api.emitted = <<>>))
       => api.ret = 0 /\ result.n = 0

\* C9: when a malloc or calloc made by kagome_tokenize fails, the call returns
\* a negative code and nothing it allocated is still allocated
C9_AllocFailureReleases ==
    (api.op = "tokenize" /\ api.hit = "malloc")
    => /\ api.ret < 0
       /\ \A k \in (Len(api.heap_before) + 1)..Len(heap) : ~heap[k].live

\* C10: after a kagome_tokenize call every kagome_cleanup_result on the result
\* is safe; the first releases all the call allocated and leaves a = NULL,
\* n = 0, m = 0; every later one frees nothing and changes nothing
C10_CleanupIdempotent ==
    (api.op = "cleanup" /\ ~api.result_null /\ origin.op = "tokenize")
    => /\ api.faults = {}
       /\ result = ZeroResult
       /\ \A k \in origin.owned : ~heap[k].live
       /\ origin.cleanups > 1
          => api.freed = <<>> /\ result = api.result_before
             /\ heap = api.heap_before

\* the concatenation of the byte strings seqs[i..]
RECURSIVE ConcatFrom(_, _)
ConcatFrom(seqs, i) ==
    IF i > Len(seqs) THEN <<>> ELSE seqs[i] \o ConcatFrom(seqs, i + 1)

Concat(seqs) == ConcatFrom(seqs, 1)

\* s is well-formed UTF-8 from byte i on
RECURSIVE WellFormedFrom(_, _)
WellFormedFrom(s, i) ==
    IF i >= Len(s) THEN TRUE
    ELSE With(U8_NEXT(s, i), LAMBDA d : d.c >= 0 /\ WellFormedFrom(s, d.i))

WellFormed(s) == WellFormedFrom(s, 0)

EosBucket(L) == L.node_list[Len(L.node_list)]

\* C12: after forward, if the EOS bucket is empty or the EOS node's cost is
\* MAXIMUM_COST, backward leaves the output list empty (neither BOS nor EOS
\* is emitted)
C12_NoPathEmptyOutput ==
    (last.op = "analyze"
     /\ (EosBucket(lattice) = <<>> \/ EosBucket(lattice)[1].cost = MAXIMUM_COST))
    => lattice.output = <<>>

\* C13: once the lattice of a tokenise call is destroyed, every node the call
\* allocated has been freed or is back in the pool: no Node object that the
\* pool made is outside the pool between calls
C13_NodesReturned ==
    last.op = "analyze" => node_pool_.made = node_pool_.pool_

\* C14: the node pool shared by all lattices is never used by two threads at
\* the same time: no two get or put operations on it overlap
C14_PoolCallsDoNotOverlap ==
    thread # NoThreads
    => Cardinality({t \in Threads : thread[t].pc \in {"get", "put"}}) <= 1

\* C15: when an archive is loaded, a member other than dict.info that is
\* missing or fails to decode is replaced by fallback data for that member
\* only, and the data decoded from every other member is kept
C15_MemberFallbackOnly ==
    (dictionary # <<>> /\ archive["zip"] = "good")
    => \A m \in Members :
          /\ archive[m] \in {"absent", "bad"}
                => dictionary[1][m] \in {"builtin", "fallback"}
          /\ (archive[m] = "good" /\ m # "chardef.dict")
                => dictionary[1][m] = "decoded"

\* C16: for every double-array trie and key k, if search(k) succeeds then the
\* common-prefix search on k reports a hit whose length is len(k) and whose
\* id is the first id search(k) returned
C16_SearchImpliesPrefixHit ==
    (lookup.done /\ lookup.search # <<>>)
    => \E h \in 1..Len(lookup.prefixes) :
          lookup.prefixes[h] = <<lookup.search[1], Len(lookup.key)>>

\* a key of several bytes found with more than one id, of which the prefix
\* search reported a shorter prefix as well
C16_Witness ==
    /\ lookup.done
    /\ Len(lookup.search) > 1
    /\ Len(lookup.key) > 1
    /\ Len(lookup.prefixes) > 1

\* the key that leads to cell q of a double array: the labels on the way from
\* the root (the label of a cell is its offset from its parent's base)
RECURSIVE KeyTo(_, _)
KeyTo(da, q) ==
    IF q = 0 THEN <<>>
    ELSE KeyTo(da, da[q].check) \o <<q - da[da[q].check].base>>

\* the keys an index holds: one for every terminator cell (the cell at its
\* parent's base whose own base is an id, negated)
IndexKeys(index) ==
    {KeyTo(index.da, index.da[q].check) :
        q \in {c \in DOMAIN index.da :
                 /\ c # 0
                 /\ index.da[c].check \in DOMAIN index.da
                 /\ index.da[index.da[c].check].base = c
                 /\ index.da[c].base <= 0}}

ContractFlags(p) ==
    {"TEXT", "UTF", "NORMALISED"}
    \cup (IF p = Kigou THEN {"EXCEPTION"} ELSE {})
    \cup (IF p \in {Joshi, Jodoushi} THEN {"STOP_WORD"} ELSE {})

\* C18: every word kagome_tokenize emits has the flags TEXT, UTF and
\* NORMALISED, has EXCEPTION and no unicode buffer exactly when its primary
\* part of speech is the symbol class, has STOP_WORD exactly when it is a
\* particle or an auxiliary verb, and has no other flag (judged for calls in
\* which no allocation failed)
C18_FlagsFollowPrimaryPos ==
    (api.op = "tokenize" /\ api.ret = 0 /\ api.hit = "none"
     /\ result.a # nullptr)
    => \A i \in 1..result.n :
          /\ heap[result.a.off].data[i].flags = ContractFlags(api.primary[i])
          /\ (heap[result.a.off].data[i].unicode.begin = nullptr)
                <=> (api.primary[i] = Kigou)

\* the decoded code points of text that are Hiragana, Katakana or Han
JapaneseCodePoints(text) ==
    SelectSeq(utf8_to_utf32(text),
              LAMBDA c : uscript_getScript(c) \in JapaneseScripts)

\* C19: kagome_detect_language returns -1.0 exactly when the text holds no
\* Hiragana, Katakana or Han code point (empty and NULL text included), and
\* otherwise 0.3 + 0.65 * ja / total limited to [0.3, 0.95], with total the
\* number of decoded code points and ja the number of them in those scripts
C19_ConfidenceByDensity ==
    api.op = "detect"
    => With(IF api.text_null THEN <<>> ELSE Texts[api.text], LAMBDA text :
       With(Len(JapaneseCodePoints(text)), LAMBDA ja :
       With(Len(utf8_to_utf32(text)), LAMBDA total :
           IF ja = 0 THEN api.confidence = <<-1, 1>>
           ELSE /\ api.confidence[1] * 20 * total
                      = (6 * total + 13 * ja) * api.confidence[2]
                /\ ~Less(api.confidence, <<3, 10>>)
                /\ ~Less(<<19, 20>>, api.confidence))))

\* what reaching t from the predecessor p costs: p.cost + connection(p.right_id,
\* t.left_id) + t.weight + penalty(p, mode), saturated at MAXIMUM_COST
CostVia(dict, mode, p, t) ==
    With(p.cost + at(dict.connection, p.right_id, t.left_id) + t.weight
         + (IF mode # LatticeMode.Normal THEN additional_cost(p) ELSE 0),
         LAMBDA sum : IF sum > MAXIMUM_COST THEN MAXIMUM_COST ELSE sum)

\* node j of bucket i has the least cost over its predecessor bucket and the
\* first predecessor, in insertion order, that attains it
HasLeastCost(L, mode, i, j) ==
    LET t == L.node_list[i + 1][j + 1] IN
    With([k \in 1..Len(L.node_list[t.start + 1]) |->
             CostVia(L.dict, mode, L.node_list[t.start + 1][k], t)], LAMBDA via :
        /\ t.prev # NULL
        /\ t.prev[1] = t.start
        /\ t.prev[2] + 1 \in DOMAIN via
        /\ t.cost = via[t.prev[2] + 1]
        /\ \A k \in DOMAIN via :
              /\ via[k] >= t.cost
              /\ via[k] = t.cost => k >= t.prev[2] + 1)

\* C20: after forward(mode), every node t of a bucket i >= 1 whose predecessor
\* bucket is non-empty has the least cost over all predecessors p of
\* p.cost + connection(p, t) + t.weight + penalty(p, mode), saturated at
\* MAXIMUM_COST, and t.prev is the first predecessor that attains it
C20_ForwardIsMinimal ==
    last.op = "analyze"
    => \A i \in 1..(Len(lattice.node_list) - 1) :
          \A j \in 0..(Len(lattice.node_list[i + 1]) - 1) :
             (/\ lattice.node_list[i + 1][j + 1].start < Len(lattice.node_list)
              /\ lattice.node_list[lattice.node_list[i + 1][j + 1].start + 1] # <<>>)
             => HasLeastCost(lattice, last.mode, i, j)

\* a node with several predecessors of which a later one is the cheapest, and
\* a node with two cheapest predecessors of which the first was taken
C20_Witness ==
    /\ last.op = "analyze"
    /\ \E i \in 1..(Len(lattice.node_list) - 1) :
          \E j \in 1..Len(lattice.node_list[i + 1]) :
             /\ lattice.node_list[i + 1][j].prev # NULL
             /\ lattice.node_list[i + 1][j].prev[2] >= 1
    /\ \E i \in 1..(Len(lattice.node_list) - 1) :
          \E j \in 1..Len(lattice.node_list[i + 1]) :
             LET t == lattice.node_list[i + 1][j] IN
             /\ t.prev # NULL
             /\ \E k \in 1..Len(lattice.node_list[t.start + 1]) :
                   /\ k > t.prev[2] + 1
                   /\ CostVia(lattice.dict, last.mode,
                              lattice.node_list[t.start + 1][k], t) = t.cost

\* the penalty the contract attaches to a surface: (n - 2) * 3000 when its
\* n > 2 characters are all ideographic, otherwise (n - 7) * 1700 when n > 7,
\* otherwise 0
SurfacePenalty(surface) ==
    With(utf8_to_utf32(surface), LAMBDA cps :
        IF Len(cps) > 2 /\ \A k \in 1..Len(cps) : IsIdeographic(cps[k])
        THEN (Len(cps) - 2) * 3000
        ELSE IF Len(cps) > 7 THEN (Len(cps) - 7) * 1700
        ELSE 0)

\* the node L.node_list_[ref[0]][ref[1]] a prev pointer refers to
NodeAt(L, ref) == L.node_list[ref[1] + 1][ref[2] + 1]

\* C21: in Search and Extended modes the penalty added to the cost of the
\* step from p to t is computed from p's surface only, (n - 2) * 3000 for
\* n > 2 ideographic characters, else (n - 7) * 1700 for n > 7, else 0, and
\* never from t's surface; in Normal mode there is no penalty
C21_PenaltyFromPredecessor ==
    last.op = "analyze"
    => \A i \in 1..(Len(lattice.node_list) - 1) :
          \A j \in 1..Len(lattice.node_list[i + 1]) :
             LET t == lattice.node_list[i + 1][j] IN
             (t.prev # NULL /\ t.cost < MAXIMUM_COST)
             => t.cost - NodeAt(lattice, t.prev).cost - t.weight
                  - at(lattice.dict.connection,
                       NodeAt(lattice, t.prev).right_id, t.left_id)
                = IF last.mode = LatticeMode.Normal THEN 0
                  ELSE SurfacePenalty(NodeAt(lattice, t.prev).surface)

\* a Search or Extended analysis in which one step was charged for its long
\* predecessor and one step onto a long target from BOS was charged nothing
C21_Witness ==
    /\ last.op = "analyze" /\ last.mode # LatticeMode.Normal
    /\ \E i \in 1..(Len(lattice.node_list) - 1) :
          \E j \in 1..Len(lattice.node_list[i + 1]) :
             LET t == lattice.node_list[i + 1][j] IN
             /\ t.prev # NULL
             /\ SurfacePenalty(NodeAt(lattice, t.prev).surface) > 0
             /\ t.cost >= SurfacePenalty(NodeAt(lattice, t.prev).surface)
    /\ \E i \in 1..(Len(lattice.node_list) - 1) :
          \E j \in 1..Len(lattice.node_list[i + 1]) :
             LET t == lattice.node_list[i + 1][j] IN
             /\ t.prev # NULL
             /\ SurfacePenalty(t.surface) > 0
             /\ SurfacePenalty(NodeAt(lattice, t.prev).surface) = 0

\* C22: for each system-dictionary hit the lattice holds one Known node for
\* every morph id of the duplicate range base_id .. base_id + dup[base_id]:
\* beside a Known node whose id has a duplicate count lie Known nodes of the
\* same start and surface with each of the following ids
C22_DuplicateExpansion ==
    last.op = "analyze"
    => \A i \in 1..Len(lattice.node_list) :
          \A j \in 1..Len(lattice.node_list[i]) :
             LET n == lattice.node_list[i][j] IN
             (n.class = NodeClass.Known /\ n.id \in DOMAIN lattice.dict.index.dup)
             => \A d \in 1..lattice.dict.index.dup[n.id] :
                   \E m \in 1..Len(lattice.node_list[i]) :
                      /\ lattice.node_list[i][m].class = NodeClass.Known
                      /\ lattice.node_list[i][m].id = n.id + d
                      /\ lattice.node_list[i][m].start = n.start
                      /\ lattice.node_list[i][m].surface = n.surface

(***************************************************************************)
(* forward on a long input                                                 *)
(***************************************************************************)
\* Nothing bounds the length of the input, and every step adds up to
\* 2 * 32767 plus the penalty to the cost so far, so on a long text forward
\* comes to targets whose predecessor holds a large cost or the clamped
\* MAXIMUM_COST.  The window below is the part of such a lattice behind one
\* node: a text of dictionary words, each the only node of its bucket.
MaxTargets == 2

\* the surfaces of the nine words of WordsDaCells, by id
WordSurfaces ==
    << substr(Sumomo, 0, 9), substr(Sumomo, 3, 6), substr(Sumomo, 3, 3),
       substr(Sumomo, 27, 3), substr(Sumomo, 30, 6), Kansai,
       substr(Kansai, 0, 6), substr(Kansai, 6, 6), substr(Kansai, 12, 6) >>

\* a dictionary load_from_zip returns whose morph.dict prices the particles
\* at 2500 and 2816: after a noun (connection cost -3000) a particle lowers
\* the cost of the path
PricedDict ==
    [WordsDict(UnkComprehensive) EXCEPT
        !.morphs[3] = Morph(2, 2, 2500), !.morphs[4] = Morph(2, 2, 2816)]

\* the costs forward has stored in the node the window starts with: none yet,
\* 4000 below the clamp, the clamp
StoredCosts == {0, MAXIMUM_COST - 4000, MAXIMUM_COST}

\* the lattice of the window: one bucket with the Known node of word id that
\* forward has given the cost c
Window(dict, id, c) ==
    With([NewLattice(dict) EXCEPT !.node_list = << <<>> >>,
                                  !.input = WordSurfaces[id + 1]], LAMBDA L0 :
    With(add_node(L0, 0, id, 0, 0, NodeClass.Known, <<>>), LAMBDA L1 :
        [L1 EXCEPT !.node_list[1][1].surface = WordSurfaces[id + 1],
                   !.node_list[1][1].cost = c]))

InitForward ==
    /\ tokenizer = create_tokenizer(PricedDict, DefaultConfig)
    /\ tokens = <<>>
    /\ first = EmptyMap
    /\ \E mode \in Modes :
           last = [op |-> "build", input |-> 0, mode |-> mode,
                   dict_before |-> NULL]
    /\ calls = 0
    /\ linked = "part_003"
    /\ g_tokenizer = <<>>
    /\ result = ZeroResult
    /\ heap = <<>>
    /\ api = NoApi
    /\ origin = HostOrigin
    /\ NoLoad
    /\ \E id \in 0..(Len(WordSurfaces) - 1), c \in StoredCosts :
           lattice = Window(PricedDict, id, c)
    /\ node_pool_ = NewPool
    /\ thread = NoThreads

\* the next word of the text is the word id: build adds its node behind the
\* window, and the body of forward's loops runs for it
forward_target(id) ==
    /\ calls < MaxTargets
    /\ LET surface == WordSurfaces[id + 1]
           char_pos == Len(lattice.node_list) - 1
           L0 == [lattice EXCEPT
                     !.input = @ \o surface,
                     !.node_list = @ \o [k \in 1..count_utf8_chars(surface) |-> <<>>]]
           L1 == add_node(L0, char_pos, id, Len(lattice.input), char_pos,
                          NodeClass.Known, surface)
       IN  lattice' = forward_node(L1, last.mode, Len(L1.node_list) - 1, 0)
    /\ last' = [last EXCEPT !.op = "forward", !.input = id]
    /\ calls' = calls + 1
    /\ UNCHANGED <<tokenizer, tokens, first, node_pool_>>
    /\ UNCHANGED api_vars
    /\ UNCHANGED thread
    /\ UNCHANGED <<loader_vars, trie_vars>>

NextForward ==
    \/ \E id \in 0..(Len(WordSurfaces) - 1) : forward_target(id)

SpecForward == InitForward /\ [][NextForward]_vars

\* C23: MAXIMUM_COST is absorbing in forward: a node whose predecessor holds
\* MAXIMUM_COST holds MAXIMUM_COST itself, so that every node below
\* MAXIMUM_COST is reached from BOS through nodes below MAXIMUM_COST
C23_MaximumCostAbsorbing ==
    \A i \in 1..Len(lattice.node_list) :
       \A j \in 1..Len(lattice.node_list[i]) :
          LET t == lattice.node_list[i][j] IN
          (t.prev # NULL /\ NodeAt(lattice, t.prev).cost = MAXIMUM_COST)
          => t.cost = MAXIMUM_COST

\* the left and right ids the connection lookup is asked about: one below the
\* matrix, the ids of a 3 x 3 matrix, two beyond it
ConnectionIds == -1..4

\* the cell of row r, column c of the matrix as it is stored (transposed), 0
\* outside the matrix
ConnectionCell(connection, r, c) ==
    IF r >= 0 /\ r < connection.row /\ c >= 0 /\ c < connection.col
    THEN connection.vec[connection.row * c + r + 1]
    ELSE 0

\* C24: on the connection matrix of the dictionary an analysis has used,
\* at(r, c) is the stored cell vec[row * c + r] for 0 <= r < row and
\* 0 <= c < col, and 0 for every other (r, c)
C24_ConnectionLookup ==
    last.op = "analyze"
    => \A r \in ConnectionIds, c \in ConnectionIds :
          at(tokenizer.dict.connection, r, c)
          = ConnectionCell(tokenizer.dict.connection, r, c)

\* C25: an Unknown node of the lattice has the catch-all id -2 if and only if
\* the category of its first character has no entry in the unknown-word index
\* the analysis started with; when there is an entry, its id is one of base id
\* .. base id + duplicates of that entry
C25_CatchAllIffNoEntry ==
    last.op = "analyze"
    => \A i \in 1..Len(lattice.node_list) :
          \A j \in 1..Len(lattice.node_list[i]) :
             LET n == lattice.node_list[i][j]
                 unk == last.dict_before.unk_dict
             IN  (n.class = NodeClass.Unknown /\ n.surface # <<>>)
                 => With(character_category(last.dict_before,
                                            U8_NEXT(n.surface, 0).c), LAMBDA category :
                        IF category \in DOMAIN unk.index
                        THEN /\ n.id >= unk.index[category]
                             /\ n.id <= unk.index[category]
                                        + (IF category \in DOMAIN unk.index_dup
                                           THEN unk.index_dup[category] ELSE 0)
                        ELSE n.id = -2)

\* the byte offsets at which the code points of the well-formed string s
\* start, from offset i on
RECURSIVE CodePointOffsets(_, _)
CodePointOffsets(s, i) ==
    IF i >= Len(s) THEN {}
    ELSE {i} \cup CodePointOffsets(s, U8_NEXT(s, i).i)

\* out[k..] is the best path nodes[m..] (BOS first) with every Unknown node
\* replaced, when split holds, by one Dummy node per code point, whose surface
\* is that code point and whose position is its byte offset in the input
RECURSIVE ReplacedFrom(_, _, _, _, _)
ReplacedFrom(nodes, m, out, k, split) ==
    IF m > Len(nodes) THEN k = Len(out) + 1
    ELSE IF ~split \/ nodes[m].class # NodeClass.Unknown
    THEN /\ k <= Len(out)
         /\ out[k] = nodes[m]
         /\ ReplacedFrom(nodes, m + 1, out, k + 1, split)
    ELSE With(CodePointOffsets(nodes[m].surface, 0), LAMBDA offsets :
         With(Cardinality(offsets), LAMBDA n :
             /\ k + n - 1 <= Len(out)
             /\ \A o \in offsets :
                   Cardinality({e \in k..(k + n - 1) :
                       /\ out[e].class = NodeClass.Dummy
                       /\ out[e].position = nodes[m].position + o
                       /\ out[e].surface
                          = substr(nodes[m].surface, o,
                                   U8_NEXT(nodes[m].surface, o).i - o)}) = 1
             /\ ReplacedFrom(nodes, m + 1, out, k + n, split)))

\* C26: in Extended mode backward puts one Dummy node per code point (its
\* surface that code point, its position the code point's byte offset in the
\* input) in the place of each Unknown node of the best path and emits the
\* other nodes of the path once and unchanged; in Normal and Search mode the
\* output is the best path
C26_ExtendedSplitsUnknown ==
    (last.op = "analyze" /\ lattice.node_list[Len(lattice.node_list)] # <<>>)
    => ReplacedFrom(Reverse(best_path(lattice, <<Len(lattice.node_list) - 1, 0>>)),
                    1, lattice.output, 1, last.mode = LatticeMode.Extended)

\* an Extended analysis whose best path holds an Unknown node of several
\* characters between BOS and EOS, and whose output is longer than the path
C26_Witness ==
    /\ last.op = "analyze" /\ last.mode = LatticeMode.Extended
    /\ lattice.node_list[Len(lattice.node_list)] # <<>>
    /\ With(best_path(lattice, <<Len(lattice.node_list) - 1, 0>>), LAMBDA path :
          /\ \E m \in 1..Len(path) :
                /\ path[m].class = NodeClass.Unknown
                /\ count_utf8_chars(path[m].surface) > 1
          /\ Len(lattice.output) > Len(path))

\* the indexes q of the cells da[q] that find_internal reads from input[i] on,
\* standing at cell q0
RECURSIVE FindReads(_, _, _, _)
FindReads(index, input, i, q0) ==
    LET buf_len == Cardinality(DOMAIN index.da) IN
    IF i >= Len(input)
    THEN {q0} \cup With(Cell(index, q0).base + 0, LAMBDA q :
                       IF q >= buf_len THEN {} ELSE {q})
    ELSE IF input[i + 1] = 0 THEN {}
    ELSE {q0} \cup With(Cell(index, q0).base + input[i + 1], LAMBDA q :
                       IF q >= buf_len THEN {}
                       ELSE {q} \cup (IF Cell(index, q).check # q0 THEN {}
                                      ELSE FindReads(index, input, i + 1, q)))

\* the same for common_prefix_search_callback
RECURSIVE PrefixReads(_, _, _, _)
PrefixReads(index, input, i, q0) ==
    LET buf_len == Cardinality(DOMAIN index.da) IN
    IF i >= Len(input) THEN {}
    ELSE IF input[i + 1] = 0 THEN {}
    ELSE {q0} \cup With(Cell(index, q0).base + input[i + 1], LAMBDA q :
                       IF q >= buf_len THEN {}
                       ELSE IF Cell(index, q).check # q0 THEN {q}
                       ELSE {q} \cup With(Cell(index, q).base + 0, LAMBDA ahead :
                                         IF ahead < buf_len THEN {ahead} ELSE {})
                                \cup PrefixReads(index, input, i + 1, q))

MaxLatticeCalls == 4

\* the texts the lattice is built from (indices into Texts)
LatticeTexts == {3, 7}

\* n calls of node_pool_.put, each with a node that is not null
RECURSIVE puts(_, _)
puts(P, n) == IF n = 0 THEN P ELSE puts(put(P), n - 1)

InitLattice ==
    /\ tokenizer = create_tokenizer(WordsDict(UnkComprehensive), DefaultConfig)
    /\ tokens = <<>>
    /\ first = EmptyMap
    /\ last = NoOp
    /\ calls = 0
    /\ linked = "part_003"
    /\ g_tokenizer = <<>>
    /\ result = ZeroResult
    /\ heap = <<>>
    /\ api = NoApi
    /\ origin = HostOrigin
    /\ NoLoad
    /\ lattice = NewLattice(tokenizer.dict)
    /\ node_pool_ = NewPool
    /\ thread = NoThreads

\* a method of the lattice returns, having left the lattice as L and the
\* pool as P
Returns(op, L, P) ==
    /\ calls < MaxLatticeCalls
    /\ lattice' = L
    /\ node_pool_' = P
    /\ last' = [NoOp EXCEPT !.op = op]
    /\ calls' = calls + 1
    /\ UNCHANGED <<tokenizer, tokens, first>>
    /\ UNCHANGED api_vars
    /\ UNCHANGED thread
    /\ UNCHANGED <<loader_vars, trie_vars>>

\* the pool after Lattice::clear has run on L: one put for every node of
\* node_list_, then one for every node of output_
cleared(L, P) == puts(P, NodeCount(L.node_list, 1) + Len(L.output))

\* lattice.build(Texts[k]): clear(), then one get for every add_node
build_call(k) ==
    \E L \in {build(clear(lattice), Texts[k])} :
        Returns("build", L, gets(cleared(lattice, node_pool_), L.got - lattice.got))

\* lattice.forward(mode)
forward_call(mode) ==
    \E L \in {forward(lattice, mode)} : Returns("forward", L, node_pool_)

\* lattice.backward(mode): one get for every per-character node
backward_call(mode) ==
    \E L \in {backward(lattice, mode)} :
        Returns("backward", L, gets(node_pool_, L.got - lattice.got))

\* lattice.clear()
clear_call ==
    \E L \in {clear(lattice)} : Returns("clear", L, cleared(lattice, node_pool_))

NextLattice ==
    \/ \E k \in LatticeTexts : build_call(k)
    \/ \E mode \in Modes : forward_call(mode)
    \/ \E mode \in Modes : backward_call(mode)
    \/ clear_call

SpecLattice == InitLattice /\ [][NextLattice]_vars

\* C28: the pool never holds a node twice and never holds a node the lattice
\* still references: the nodes in the pool and the nodes in node_list_ together
\* are no more than the nodes that were ever made
C28_PoolHoldsFreeNodesOnce ==
    node_pool_.pool_ + NodeCount(lattice.node_list, 1) <= node_pool_.made

\* C29: kagome_tokenize neither reads nor frees what *result held on entry:
\* every pointer it passes to free is a block allocated during the call, and
\* it runs into no invalid read or free
C29_TokenizeFreesOwnBlocksOnly ==
    (api.op = "tokenize" /\ ~api.result_null)
    => /\ \A i \in 1..Len(api.freed) :
             /\ api.freed[i].region = "heap"
             /\ api.freed[i].off > Len(api.heap_before)
       /\ api.faults = {}

\* the sequences of kagome_init, kagome_deinit and kagome_tokenize calls; a
\* kagome_tokenize call runs through or meets std::bad_alloc at its start
SequenceFaults == {[kind |-> "none", at |-> 0], [kind |-> "throw", at |-> 0]}

NextInit ==
    \/ \E outcome \in InitOutcomes : kagome_init(outcome)
    \/ kagome_deinit
    \/ \E arg \in TokenizeArgs, fault \in SequenceFaults :
           kagome_tokenize(arg, fault)

SpecInit == InitApi /\ [][NextInit]_vars

\* C30: in every sequence of host calls a tokenizer is installed from a
\* kagome_init that returns 0 until the next kagome_deinit and at no other
\* time (an init that fails leaves what was there, an init that succeeds
\* leaves exactly one); kagome_tokenize tokenises only while one is installed,
\* and otherwise returns a negative code, allocates and frees nothing and
\* leaves *result as it was
C30_InitDeinitTokenize ==
    [][calls' = calls + 1
       => /\ Len(g_tokenizer') <= 1
          /\ (api'.op = "init" /\ api'.ret = 0) => Len(g_tokenizer') = 1
          /\ (api'.op = "init" /\ api'.ret # 0)
                => (api'.ret < 0 /\ g_tokenizer' = g_tokenizer)
          /\ api'.op = "deinit" => g_tokenizer' = <<>>
          /\ api'.op \notin {"init", "deinit"}
                => Len(g_tokenizer') = Len(g_tokenizer)
          /\ (api'.op = "tokenize" /\ g_tokenizer = <<>>)
                => /\ api'.ret < 0
                   /\ result' = result
                   /\ heap' = heap
                   /\ api'.freed = <<>>
                   /\ api'.emitted = <<>>
          /\ (api'.op = "tokenize" /\ api'.ret = 0) => g_tokenizer # <<>>]_vars

\* kagome_tokenize was refused after a kagome_deinit: no tokenizer is
\* installed, the call returned -1, and *result still points to the words of
\* a call that tokenised before the deinit
C30_Witness ==
    /\ api.op = "tokenize"
    /\ ~api.initialised
    /\ api.ret = -1
    /\ g_tokenizer = <<>>
    /\ result = api.result_before
    /\ IsLive(heap, result.a)
    /\ result.n > 0

====
